---- MODULE Spec2Model ----
(***************************************************************************)
(* Model of the grounded-retrieval engine of the SupplyMind AI copilot     *)
(* (backend/ai_copilot/views.py): run_sql, vector_search, format_answer    *)
(* and CopilotChatView.post; of embed_texts (enhanced_seed_demo.py);      *)
(* of the table ai_vector_embeddings with the semantic search over it; and *)
(* of AnalyticsViewSet.query (backend/risk_analytics/views.py).            *)
(*                                                                         *)
(* Text that the code inspects (the question, the SQL statements, the      *)
(* keyword lists) is a sequence of one-character strings, so that strip,   *)
(* lower, startswith and the substring test are computed.  Text that the   *)
(* code only builds (the answer) is a TLA+ string built with \o.           *)
(* Python values held in rows and filters are tagged records, see S, I,    *)
(* None.                                                                   *)
(***************************************************************************)
EXTENDS Integers, Sequences, FiniteSets, TLC

VARIABLES
    supabase,      \* module-level client: TRUE when SUPABASE_URL and key are set
    OPENAI_API_KEY,\* TRUE when an embedding provider key is configured
    body,          \* request.data of the chat request being handled
    pc,            \* position of CopilotChatView.post
    question,      \* local: stripped question
    filters,       \* local: filters mapping
    top_k,         \* local: parsed top_k
    intents,       \* local: list of (domain, sql, params)
    evidences,     \* local: list of RetrievalResult
    rendered,      \* local of format_answer: snippets[:10], the snippets joined into the text
    answer,        \* the response payload
    now,           \* wall clock, milliseconds
    calls,         \* log of the calls made to the store and the embedding provider
    backend,       \* per retrieval of the request: what the store and the provider did
    response,      \* the Response of the other endpoints: status and data
    embeddings,    \* rows of the table ai_vector_embeddings
    np_random,     \* state of numpy's global generator in the seeding script
    embedded,      \* what each embed_texts call of the seeding script returned
    orders,        \* rows of the purchase order and sales order tables
    requests,      \* requests in flight: the action and the object get_object() loaded
    inventory,     \* row of the inventory item table: quantity
    movements      \* rows of the StockMovement table

vars == <<supabase, OPENAI_API_KEY, body, pc, question, filters, top_k, intents,
          evidences, rendered, answer, now, calls, backend,
          response, embeddings, np_random, embedded,
          orders, requests, inventory, movements>>

-----------------------------------------------------------------------------
(* Bounds of the model *)

\* rows per evidence batch drawn for format_answer
MaxRows == 6
\* batches per evidence list drawn for format_answer
MaxBatches == 2

-----------------------------------------------------------------------------
(* Python values *)

S(x) == [t |-> "str", s |-> x]
I(n) == [t |-> "int", n |-> n]
None == [t |-> "null"]

Digit == <<"0", "1", "2", "3", "4", "5", "6", "7", "8", "9">>

RECURSIVE IntToStr(_)
IntToStr(n) ==
    IF n < 10 THEN Digit[n + 1] ELSE IntToStr(n \div 10) \o Digit[(n % 10) + 1]

\* str(v), as an f-string renders a value
Str(v) ==
    CASE v.t = "str" -> v.s
      [] v.t = "int" -> IntToStr(v.n)
      [] v.t = "null" -> "None"

Min(a, b) == IF a < b THEN a ELSE b

\* seq[:n]
Take(seq, n) == SubSeq(seq, 1, Min(n, Len(seq)))

\* sep.join(parts)
RECURSIVE Join(_, _)
Join(parts, sep) ==
    IF Len(parts) = 0 THEN ""
    ELSE IF Len(parts) = 1 THEN parts[1]
    ELSE parts[1] \o sep \o Join(Tail(parts), sep)

RECURSIVE Flatten(_)
Flatten(seqs) == IF Len(seqs) = 0 THEN <<>> ELSE Head(seqs) \o Flatten(Tail(seqs))

-----------------------------------------------------------------------------
(* format_answer *)

INSUFFICIENT == "Insufficient data in supply chain database to answer. Please refine your query."
PREFIX == "Based on Supabase data: "

\* the allow-list of line 185, in its order
KEY_FIELDS == <<"sku", "id", "order_no", "status", "quantity", "location", "metric", "value", "severity">>

\* snippets[:10]
SnippetCap == 10

\* total_rows taken from the first batch alone
TotalRowsFirstBatch(evs) == IF Len(evs) = 0 THEN 0 ELSE Len(Head(evs).rows)

RECURSIVE TotalRows(_)
TotalRows(evs) == IF Len(evs) = 0 THEN 0 ELSE Len(Head(evs).rows) + TotalRows(Tail(evs))
\* key_fields without the "is not None" test: a null field is rendered as k=None
KeyFieldsOfPresent(row) ==
    LET pick(k) == IF k \in DOMAIN row THEN <<k \o "=" \o Str(row[k])>> ELSE <<>>
    IN  Flatten([i \in 1..Len(KEY_FIELDS) |-> pick(KEY_FIELDS[i])])

\* lines 184-187: key_fields of one row
KeyFieldsOf(row) ==
    LET pick(k) == IF k \in DOMAIN row /\ row[k] # None
                   THEN <<k \o "=" \o Str(row[k])>> ELSE <<>>
    IN  Flatten([i \in 1..Len(KEY_FIELDS) |-> pick(KEY_FIELDS[i])])

\* lines 188-189: the snippets one row appends (none when it has no key field)
RowSnippets(row) ==
    IF KeyFieldsOf(row) # <<>> THEN <<Join(KeyFieldsOf(row), "; ")>> ELSE <<>>

\* lines 181-189: snippets over every batch, every row
Snippets(evs) ==
    Flatten([b \in 1..Len(evs) |->
        Flatten([r \in 1..Len(evs[b].rows) |-> RowSnippets(evs[b].rows[r])])])

\* citations.append placed under "if key_fields": rows without a snippet are not cited
CitationsOfKeyedRows(evs) ==
    Flatten([b \in 1..Len(evs) |->
        Flatten([r \in 1..Len(evs[b].rows) |->
            IF KeyFieldsOf(evs[b].rows[r]) # <<>>
            THEN <<[source |-> evs[b].source, row |-> evs[b].rows[r]]>> ELSE <<>>])])

\* line 190: one citation per row
Citations(evs) ==
    Flatten([b \in 1..Len(evs) |->
        [r \in 1..Len(evs[b].rows) |-> [source |-> evs[b].source, row |-> evs[b].rows[r]]]])

\* "; ".join(snippets) without the [:10]
RenderedUncapped(evs) == Snippets(evs)

\* line 193: the snippets that are joined into the text
Rendered(evs) == Take(Snippets(evs), SnippetCap)

\* sources listing only the batches that brought rows
SourcesWithRows(evs) ==
    Flatten([b \in 1..Len(evs) |-> IF evs[b].rows # <<>> THEN <<evs[b].source>> ELSE <<>>])

\* lines 175, 197: [e.source for e in evidences]
SourcesOf(evs) == [b \in 1..Len(evs) |-> evs[b].source]
\* format_answer that repeats the question in front of the answer text
format_answer_echo(q, evs) ==
    IF TotalRows(evs) = 0
    THEN [answer |-> Join(q, "") \o ": " \o INSUFFICIENT, citations |-> <<>>,
          sources |-> SourcesOf(evs)]
    ELSE [answer |-> Join(q, "") \o ": " \o PREFIX \o Join(Rendered(evs), "; "),
          citations |-> Citations(evs),
          sources |-> SourcesOf(evs)]

format_answer(q, evs) ==
    IF TotalRows(evs) = 0
    THEN [answer |-> INSUFFICIENT, citations |-> <<>>, sources |-> SourcesOf(evs)]
    ELSE [answer |-> PREFIX \o Join(Rendered(evs), "; "),
          citations |-> Citations(evs),
          sources |-> SourcesOf(evs)]

-----------------------------------------------------------------------------
(* Text the code inspects: sequences of one-character strings *)

UPPER == <<"A", "B", "C", "D", "E", "F", "G", "H", "I", "J", "K", "L", "M", "N", "O", "P", "Q", "R", "S", "T", "U", "V", "W", "X", "Y", "Z">>
LOWER == <<"a", "b", "c", "d", "e", "f", "g", "h", "i", "j", "k", "l", "m", "n", "o", "p", "q", "r", "s", "t", "u", "v", "w", "x", "y", "z">>

LowerChar(c) ==
    IF \E i \in 1..Len(UPPER) : UPPER[i] = c
    THEN LOWER[CHOOSE i \in 1..Len(UPPER) : UPPER[i] = c]
    ELSE c

\* str.lower()
Lower(s) == [i \in 1..Len(s) |-> LowerChar(s[i])]

WHITESPACE == {" ", "\t", "\n"}

\* str.strip()
RECURSIVE LStrip(_)
LStrip(s) == IF Len(s) > 0 /\ Head(s) \in WHITESPACE THEN LStrip(Tail(s)) ELSE s

RECURSIVE RStrip(_)
RStrip(s) ==
    IF Len(s) > 0 /\ s[Len(s)] \in WHITESPACE THEN RStrip(SubSeq(s, 1, Len(s) - 1)) ELSE s

Strip(s) == RStrip(LStrip(s))

\* s.startswith(w)
StartsWith(s, w) == Len(w) <= Len(s) /\ SubSeq(s, 1, Len(w)) = w

\* w in s
Contains(s, w) == \E i \in 1..(Len(s) - Len(w) + 1) : SubSeq(s, i, i + Len(w) - 1) = w

\* any(w in ql for w in kws)
AnyIn(ql, kws) == \E w \in kws : Contains(ql, w)

-----------------------------------------------------------------------------
(* Keyword lists and statements of CopilotChatView.post and run_sql *)

\* line 229: any(w in ql for w in ['stock', 'inventory', 'sku', 'warehouse', 'on hand', 'reorder'])
KW_INVENTORY == {
    <<"s", "t", "o", "c", "k">>,
    <<"i", "n", "v", "e", "n", "t", "o", "r", "y">>,
    <<"s", "k", "u">>,
    <<"w", "a", "r", "e", "h", "o", "u", "s", "e">>,
    <<"o", "n", " ", "h", "a", "n", "d">>,
    <<"r", "e", "o", "r", "d", "e", "r">>}

\* line 231: any(w in ql for w in ['order', 'fulfill', 'shipment', 'backorder', 'eta', 'delivery'])
KW_ORDERS == {
    <<"o", "r", "d", "e", "r">>,
    <<"f", "u", "l", "f", "i", "l", "l">>,
    <<"s", "h", "i", "p", "m", "e", "n", "t">>,
    <<"b", "a", "c", "k", "o", "r", "d", "e", "r">>,
    <<"e", "t", "a">>,
    <<"d", "e", "l", "i", "v", "e", "r", "y">>}

\* line 233: any(w in ql for w in ['risk', 'disruption', 'delay', 'incident', 'alert'])
KW_RISK == {
    <<"r", "i", "s", "k">>,
    <<"d", "i", "s", "r", "u", "p", "t", "i", "o", "n">>,
    <<"d", "e", "l", "a", "y">>,
    <<"i", "n", "c", "i", "d", "e", "n", "t">>,
    <<"a", "l", "e", "r", "t">>}

\* line 235: any(w in ql for w in ['kpi', 'metric', 'fill rate', 'otif', 'forecast', 'trend', 'analytics'])
KW_ANALYTICS == {
    <<"k", "p", "i">>,
    <<"m", "e", "t", "r", "i", "c">>,
    <<"f", "i", "l", "l", " ", "r", "a", "t", "e">>,
    <<"o", "t", "i", "f">>,
    <<"f", "o", "r", "e", "c", "a", "s", "t">>,
    <<"t", "r", "e", "n", "d">>,
    <<"a", "n", "a", "l", "y", "t", "i", "c", "s">>}

\* "select * from inventory"
SQL_INVENTORY == <<"s", "e", "l", "e", "c", "t", " ", "*", " ", "f", "r", "o", "m", " ", "i", "n", "v", "e", "n", "t", "o", "r", "y">>

\* "select * from orders"
SQL_ORDERS == <<"s", "e", "l", "e", "c", "t", " ", "*", " ", "f", "r", "o", "m", " ", "o", "r", "d", "e", "r", "s">>

\* "select * from risk_events"
SQL_RISK_EVENTS == <<"s", "e", "l", "e", "c", "t", " ", "*", " ", "f", "r", "o", "m", " ", "r", "i", "s", "k", "_", "e", "v", "e", "n", "t", "s">>

\* "select * from analytics_metrics"
SQL_ANALYTICS_METRICS == <<"s", "e", "l", "e", "c", "t", " ", "*", " ", "f", "r", "o", "m", " ", "a", "n", "a", "l", "y", "t", "i", "c", "s", "_", "m", "e", "t", "r", "i", "c", "s">>

\* "select"
SELECT == <<"s", "e", "l", "e", "c", "t">>

\* " from inventory"
FROM_INVENTORY == <<" ", "f", "r", "o", "m", " ", "i", "n", "v", "e", "n", "t", "o", "r", "y">>

\* " from orders"
FROM_ORDERS == <<" ", "f", "r", "o", "m", " ", "o", "r", "d", "e", "r", "s">>

\* " from risk_events"
FROM_RISK_EVENTS == <<" ", "f", "r", "o", "m", " ", "r", "i", "s", "k", "_", "e", "v", "e", "n", "t", "s">>

\* " from analytics_metrics"
FROM_ANALYTICS_METRICS == <<" ", "f", "r", "o", "m", " ", "a", "n", "a", "l", "y", "t", "i", "c", "s", "_", "m", "e", "t", "r", "i", "c", "s">>

-----------------------------------------------------------------------------
(* The store: the tables the lookups read and the matches the vector RPC   *)
(* can return.  The contents follow scripts/seed_demo.py; timestamps are   *)
(* day numbers and severities are integers.                                *)

TABLE_INVENTORY == <<
    [sku |-> S("SKU-1001"), location |-> S("WH1"), quantity |-> I(120)],
    [sku |-> S("SKU-1001"), location |-> S("WH2"), quantity |-> I(60)],
    [sku |-> S("SKU-1002"), location |-> S("WH1"), quantity |-> I(25)],
    [sku |-> S("SKU-1003"), location |-> S("WH3"), quantity |-> I(0)]>>

TABLE_ORDERS == <<
    [id |-> I(1), order_no |-> S("ORD-1001"), sku |-> S("SKU-1001"), quantity |-> I(7),
     status |-> S("shipped"), eta |-> I(3)],
    [id |-> I(2), order_no |-> S("ORD-1002"), sku |-> S("SKU-1002"), quantity |-> I(12),
     status |-> S("backorder"), eta |-> I(9)],
    [id |-> I(3), order_no |-> S("ORD-1003"), sku |-> S("SKU-1001"), quantity |-> I(1),
     status |-> S("shipped"), eta |-> I(5)]>>

TABLE_RISK_EVENTS == <<
    [id |-> I(1), type |-> S("port_delay"), severity |-> I(6), event_time |-> I(12), region |-> S("APAC")],
    [id |-> I(2), type |-> S("weather"), severity |-> I(8), event_time |-> I(13), region |-> S("EU")]>>

TABLE_ANALYTICS_METRICS == <<
    [metric |-> S("fill_rate"), ts |-> I(14), value |-> I(90)],
    [metric |-> S("otif"), ts |-> I(14), value |-> I(88)]>>

\* rows a match_embeddings call can return: no allow-listed field among them
EMBEDDING_MATCHES == <<
    [content |-> S("SKU-1001 on hand: WH1=120"), similarity |-> I(91)],
    [content |-> S("Port delay in APAC"), similarity |-> I(64)]>>

TableRows(table) ==
    CASE table = "inventory" -> TABLE_INVENTORY
      [] table = "orders" -> TABLE_ORDERS
      [] table = "risk_events" -> TABLE_RISK_EVENTS
      [] table = "analytics_metrics" -> TABLE_ANALYTICS_METRICS

\* one .eq(col, val) / .gte(col, val) restriction
Cond(op, col, val) == [op |-> op, col |-> col, val |-> val]

Satisfies(row, c) ==
    /\ c.col \in DOMAIN row
    /\ row[c.col].t = c.val.t
    /\ CASE c.op = "eq" -> row[c.col] = c.val
         [] c.op = "gte" -> c.val.t = "int" /\ row[c.col].n >= c.val.n

RECURSIVE SelectRows(_, _)
SelectRows(rows, conds) ==
    IF Len(rows) = 0 THEN <<>>
    ELSE (IF \A i \in 1..Len(conds) : Satisfies(Head(rows), conds[i])
          THEN <<Head(rows)>> ELSE <<>>) \o SelectRows(Tail(rows), conds)

\* q.execute().data for q = table(t).select("*") with its restrictions and limit;
\* limit is <<>> (none) or <<n>>
Execute(q) ==
    LET hit == SelectRows(TableRows(q.table), q.conds)
    IN  IF q.limit = <<>> THEN hit ELSE Take(hit, q.limit[1])

\* time a call to the store or the provider can take, in milliseconds
Delays == {0, 3}

\* whether a call to the store or the provider returns or raises
Outcomes == {"ok", "raise"}

-----------------------------------------------------------------------------
(* run_sql *)

RetrievalResult(source, rows, query_ms) ==
    [source |-> source, rows |-> rows, query_ms |-> query_ms]

\* params and k in params
Has(params, k) == k \in DOMAIN params

\* {**filters, k: v}
With(m, k, v) == [key \in DOMAIN m \cup {k} |-> IF key = k THEN v ELSE m[key]]

\* int(v) raises unless v is a number
IntRaises(v) == v.t # "int"

\* lines 84-124: the branch of the router the statement takes
Route(sql) ==
    LET sql_l == Lower(Strip(sql))
    IN  IF StartsWith(sql_l, SELECT) /\ Contains(sql_l, FROM_INVENTORY) THEN "inventory"
        ELSE IF StartsWith(sql_l, SELECT) /\ Contains(sql_l, FROM_ORDERS) THEN "orders"
        ELSE IF StartsWith(sql_l, SELECT) /\ Contains(sql_l, FROM_RISK_EVENTS) THEN "risk_events"
        ELSE IF StartsWith(sql_l, SELECT) /\ Contains(sql_l, FROM_ANALYTICS_METRICS)
             THEN "analytics_metrics"
        ELSE "rpc"

OptCond(params, k, op, col) == IF Has(params, k) THEN <<Cond(op, col, params[k])>> ELSE <<>>

OptLimit(params) == IF Has(params, "limit") THEN <<params["limit"].n>> ELSE <<>>
\* a query builder that turns every key of params into an equality restriction
QueryForEveryKey(table, params) ==
    LET Conds[ks \in SUBSET (DOMAIN params)] ==
            IF ks = {} THEN <<>>
            ELSE LET k == CHOOSE x \in ks : TRUE
                 IN  <<Cond("eq", k, params[k])>> \o Conds[ks \ {k}]
    IN  [op |-> "select", table |-> table, conds |-> Conds[DOMAIN params], limit |-> <<>>]

\* lines 86-123: the restrictions and the limit put on q before q.execute()
QueryFor(table, params) ==
    CASE table = "inventory" ->
           [op |-> "select", table |-> table,
            conds |-> OptCond(params, "sku", "eq", "sku"),
            limit |-> OptLimit(params)]
      [] table = "orders" ->
           [op |-> "select", table |-> table,
            conds |-> OptCond(params, "order_id", "eq", "id")
                      \o OptCond(params, "status", "eq", "status"),
            limit |-> OptLimit(params)]
      [] table = "risk_events" ->
           [op |-> "select", table |-> table,
            conds |-> OptCond(params, "severity", "gte", "severity")
                      \o OptCond(params, "since", "gte", "event_time"),
            limit |-> <<>>]
      [] table = "analytics_metrics" ->
           [op |-> "select", table |-> table,
            conds |-> OptCond(params, "metric", "eq", "metric")
                      \o OptCond(params, "since", "gte", "ts"),
            limit |-> <<>>]

\* lines 92, 103: int(params["limit"]) raises before anything is sent
LimitRaises(table, params) ==
    table \in {"inventory", "orders"} /\ Has(params, "limit") /\ IntRaises(params["limit"])

\* lines 126-127: fn = params.get("rpc"); if fn
RpcNamed(params) ==
    Has(params, "rpc") /\ params["rpc"] # None /\ params["rpc"] # S("")
\* a run_sql that looks for params["rpc"] before it routes the statement
SqlCallsRpcFirst(sql, params) ==
    LET table == Route(sql)
    IN  IF RpcNamed(params)
        THEN <<[op |-> "rpc", fn |-> params["rpc"],
                args |-> IF Has(params, "args") THEN params["args"] ELSE <<>>]>>
        ELSE IF table = "rpc" \/ LimitRaises(table, params) THEN <<>>
        ELSE <<QueryFor(table, params)>>

\* the request run_sql sends to the store: none, one select or one rpc
SqlCalls(sql, params) ==
    LET table == Route(sql)
    IN  IF table = "rpc"
        THEN IF RpcNamed(params)
             THEN <<[op |-> "rpc", fn |-> params["rpc"],
                     args |-> IF Has(params, "args") THEN params["args"] ELSE <<>>]>>
             ELSE <<>>
        ELSE IF LimitRaises(table, params) THEN <<>> ELSE <<QueryFor(table, params)>>

\* res.data of supabase.rpc(fn, args): the procedures the repository names are
\* match_embeddings and truncate_table, which returns no row
RpcData(call) == IF call.fn = S("match_embeddings") THEN EMBEDDING_MATCHES ELSE <<>>

\* rows = [] placed in a finally clause: the rows are thrown away after every call
SqlRowsDiscarded(sql, params, outcome) == <<>>

\* lines 83-131: rows after the try block; outcome says whether the call to the
\* store returns or raises
SqlRows(sql, params, outcome) ==
    LET sent == SqlCalls(sql, params)
    IN  IF sent = <<>> \/ outcome = "raise" THEN <<>>
        ELSE IF sent[1].op = "select" THEN Execute(sent[1])
        ELSE RpcData(sent[1])

\* run_sql without the "if not supabase" return: the missing client raises inside the
\* try block and the elapsed time is reported
run_sql_unguarded(sql, params, outcome, elapsed) ==
    RetrievalResult("supabase", IF supabase THEN SqlRows(sql, params, outcome) ELSE <<>>, elapsed)

\* run_sql(sql, params): elapsed is time.time() - start at line 132
run_sql(sql, params, outcome, elapsed) ==
    IF ~supabase
    THEN RetrievalResult("supabase", <<>>, 0)
    ELSE RetrievalResult("supabase", SqlRows(sql, params, outcome), elapsed)

-----------------------------------------------------------------------------
(* get_embedding and vector_search *)

\* threshold: float = 0.15, in hundredths
THRESHOLD == 15

\* get_embedding: TRUE when a vector comes back (key set, provider call returns)
HasEmbedding(provider) == OPENAI_API_KEY /\ provider = "ok"
\* vector_search that sends the match RPC whether or not a vector came back
VectorCallsAlwaysMatch(top_k_arg, provider) ==
    IF ~supabase THEN <<>>
    ELSE (IF OPENAI_API_KEY THEN <<[op |-> "embed"]>> ELSE <<>>)
         \o <<[op |-> "rpc", fn |-> S("match_embeddings"),
               args |-> [match_count |-> top_k_arg, threshold |-> THRESHOLD]]>>

\* the calls vector_search makes: the provider, then the match RPC
VectorCalls(top_k_arg, provider) ==
    IF ~supabase THEN <<>>
    ELSE (IF OPENAI_API_KEY THEN <<[op |-> "embed"]>> ELSE <<>>)
         \o (IF HasEmbedding(provider)
             THEN <<[op |-> "rpc", fn |-> S("match_embeddings"),
                     args |-> [match_count |-> top_k_arg, threshold |-> THRESHOLD]]>>
             ELSE <<>>)

\* vector_search whose early return carries run_sql's label
vector_search_mislabelled(query, top_k_arg, provider, outcome, n, elapsed) ==
    IF ~supabase
    THEN RetrievalResult("supabase", <<>>, 0)
    ELSE IF ~HasEmbedding(provider)
    THEN RetrievalResult("vector", <<>>, elapsed)
    ELSE RetrievalResult("vector",
            IF outcome = "raise" THEN <<>> ELSE Take(EMBEDDING_MATCHES, n), elapsed)

\* vector_search(query, top_k): provider and outcome say whether the provider and
\* the match RPC return or raise, n is how many rows the RPC returns
vector_search(query, top_k_arg, provider, outcome, n, elapsed) ==
    IF ~supabase
    THEN RetrievalResult("vector", <<>>, 0)
    ELSE IF ~HasEmbedding(provider)
    THEN RetrievalResult("vector", <<>>, elapsed)
    ELSE RetrievalResult("vector",
            IF outcome = "raise" THEN <<>> ELSE Take(EMBEDDING_MATCHES, n), elapsed)

-----------------------------------------------------------------------------
(* CopilotChatView.post *)

\* "  "
Q_BLANK == <<" ", " ">>

\* " Hello "
Q_HELLO == <<" ", "H", "e", "l", "l", "o", " ">>

\* "SKU stock"
Q_SKU == <<"S", "K", "U", " ", "s", "t", "o", "c", "k">>

\* "order ETA"
Q_ETA == <<"o", "r", "d", "e", "r", " ", "E", "T", "A">>

\* "Reorder"
Q_REORDER == <<"R", "e", "o", "r", "d", "e", "r">>

\* "risk kpi"
Q_RISK_KPI == <<"r", "i", "s", "k", " ", "k", "p", "i">>

\* "sku eta alert"
Q_THREE == <<"s", "k", "u", " ", "e", "t", "a", " ", "a", "l", "e", "r", "t">>

Questions == {Q_BLANK, Q_HELLO, Q_SKU, Q_ETA, Q_REORDER, Q_RISK_KPI, Q_THREE}

EMPTY == [k \in {} |-> None]

FiltersChoices ==
    {EMPTY, [sku |-> S("SKU-1001")], [limit |-> I(1)],
     [rpc |-> S("truncate_table"), args |-> [t |-> S("orders")]]}

TopKChoices == {I(2), I(8), I(12), S("abc")}

\* request.data: a mapping holding the keys the caller sent
Bodies ==
    {[k \in keys |-> CASE k = "question" -> q [] k = "filters" -> f [] k = "top_k" -> t] :
        keys \in SUBSET {"question", "filters", "top_k"},
        q \in Questions, f \in FiltersChoices, t \in TopKChoices}

\* body.get("top_k") or 8
DEFAULT_TOP_K == 8
\* body.get("top_k") or 5: the default of the semantic-search surface
TopKArgFive(b) ==
    IF "top_k" \in DOMAIN b /\ b["top_k"] \notin {None, I(0), S("")}
    THEN b["top_k"] ELSE I(5)

TopKArg(b) ==
    IF "top_k" \in DOMAIN b /\ b["top_k"] \notin {None, I(0), S("")}
    THEN b["top_k"] ELSE I(DEFAULT_TOP_K)

QuestionArg(b) == IF "question" \in DOMAIN b THEN b["question"] ELSE <<>>

FiltersArg(b) == IF "filters" \in DOMAIN b THEN b["filters"] ELSE EMPTY

\* the four tests chained with elif: only the first matching domain is kept
IntentsFirstMatch(q, f, k) ==
    LET ql == Lower(q)
    IN  IF AnyIn(ql, KW_INVENTORY)
        THEN <<[domain |-> "inventory", sql |-> SQL_INVENTORY, params |-> With(f, "limit", I(k))]>>
        ELSE IF AnyIn(ql, KW_ORDERS)
        THEN <<[domain |-> "orders", sql |-> SQL_ORDERS, params |-> With(f, "limit", I(k))]>>
        ELSE IF AnyIn(ql, KW_RISK)
        THEN <<[domain |-> "risk_events", sql |-> SQL_RISK_EVENTS, params |-> f]>>
        ELSE IF AnyIn(ql, KW_ANALYTICS)
        THEN <<[domain |-> "analytics_metrics", sql |-> SQL_ANALYTICS_METRICS, params |-> f]>>
        ELSE <<>>
\* intents built as {"limit": top_k, **filters}: a limit in filters wins
IntentsFiltersLast(q, f, k) ==
    LET ql == Lower(q)
        limited == IF Has(f, "limit") THEN f ELSE With(f, "limit", I(k))
    IN  (IF AnyIn(ql, KW_INVENTORY)
         THEN <<[domain |-> "inventory", sql |-> SQL_INVENTORY, params |-> limited]>>
         ELSE <<>>)
        \o (IF AnyIn(ql, KW_ORDERS)
            THEN <<[domain |-> "orders", sql |-> SQL_ORDERS, params |-> limited]>>
            ELSE <<>>)
        \o (IF AnyIn(ql, KW_RISK)
            THEN <<[domain |-> "risk_events", sql |-> SQL_RISK_EVENTS, params |-> f]>>
            ELSE <<>>)
        \o (IF AnyIn(ql, KW_ANALYTICS)
            THEN <<[domain |-> "analytics_metrics", sql |-> SQL_ANALYTICS_METRICS, params |-> f]>>
            ELSE <<>>)

\* lines 229-236
Intents(q, f, k) ==
    LET ql == Lower(q)
    IN  (IF AnyIn(ql, KW_INVENTORY)
         THEN <<[domain |-> "inventory", sql |-> SQL_INVENTORY, params |-> With(f, "limit", I(k))]>>
         ELSE <<>>)
        \o (IF AnyIn(ql, KW_ORDERS)
            THEN <<[domain |-> "orders", sql |-> SQL_ORDERS, params |-> With(f, "limit", I(k))]>>
            ELSE <<>>)
        \o (IF AnyIn(ql, KW_RISK)
            THEN <<[domain |-> "risk_events", sql |-> SQL_RISK_EVENTS, params |-> f]>>
            ELSE <<>>)
        \o (IF AnyIn(ql, KW_ANALYTICS)
            THEN <<[domain |-> "analytics_metrics", sql |-> SQL_ANALYTICS_METRICS, params |-> f]>>
            ELSE <<>>)

NoAnswer == [answer |-> "", citations |-> <<>>, sources |-> <<>>]

\* no Response has been returned
NoResponse == [status |-> 0, data |-> EMPTY]

\* np.random.seed(42)
SEED == 42

Init ==
    /\ supabase \in BOOLEAN
    /\ OPENAI_API_KEY \in BOOLEAN
    /\ body \in Bodies
    /\ pc = "start"
    /\ question = <<>>
    /\ filters = EMPTY
    /\ top_k = 0
    /\ intents = <<>>
    /\ evidences = <<>>
    /\ rendered = <<>>
    /\ answer = NoAnswer
    /\ now = 0
    /\ calls = <<>>
    /\ backend = <<>>
    /\ response = NoResponse
    /\ embeddings = <<>>
    /\ np_random = SEED
    /\ embedded = <<>>
    /\ orders = <<>>
    /\ requests = <<>>
    /\ inventory = <<>>
    /\ movements = <<>>

\* what the environment did during one retrieval: whether a call to the store or the
\* provider raised, the rows the store returned, the time that passed
BackendDid(failed, data, elapsed) == [failed |-> failed, data |-> data, elapsed |-> elapsed]

VectorBackend(provider, outcome, n, elapsed) ==
    IF ~supabase THEN BackendDid(FALSE, <<>>, 0)
    ELSE IF ~OPENAI_API_KEY THEN BackendDid(FALSE, <<>>, elapsed)
    ELSE IF provider = "raise" \/ outcome = "raise" THEN BackendDid(TRUE, <<>>, elapsed)
    ELSE BackendDid(FALSE, Take(EMBEDDING_MATCHES, n), elapsed)

SqlBackend(sql, params, outcome, elapsed) ==
    LET sent == IF supabase THEN SqlCalls(sql, params) ELSE <<>>
    IN  IF ~supabase THEN BackendDid(FALSE, <<>>, 0)
        ELSE IF sent = <<>> THEN BackendDid(FALSE, <<>>, elapsed)
        ELSE IF outcome = "raise" THEN BackendDid(TRUE, <<>>, elapsed)
        ELSE BackendDid(FALSE,
                IF sent[1].op = "select" THEN Execute(sent[1]) ELSE RpcData(sent[1]), elapsed)

\* the batch kept with the label run_sql gave it
RelabelSkipped(ev, domain) == ev

\* line 243: ev.source = domain
Relabel(ev, domain) == [ev EXCEPT !.source = domain]

\* lines 220-236 when int(...) of line 224 raises: the exception leaves post
ParseRaise ==
    /\ pc = "start"
    /\ IntRaises(TopKArg(body))
    /\ pc' = "raised"
    /\ question' = Strip(QuestionArg(body))
    /\ filters' = FiltersArg(body)
    /\ UNCHANGED <<supabase, OPENAI_API_KEY, body, top_k, intents, evidences, rendered,
                   answer, now, calls, backend>>
    /\ UNCHANGED <<response, embeddings, np_random, embedded>>
    /\ UNCHANGED <<orders, requests, inventory, movements>>

\* lines 220-236: the fields are read and the intents are routed
Parse ==
    /\ pc = "start"
    /\ ~IntRaises(TopKArg(body))
    /\ question' = Strip(QuestionArg(body))
    /\ filters' = FiltersArg(body)
    /\ top_k' = TopKArg(body).n
    /\ intents' = Intents(question', filters', top_k')
    /\ pc' = "vector"
    /\ UNCHANGED <<supabase, OPENAI_API_KEY, body, evidences, rendered, answer, now, calls, backend>>
    /\ UNCHANGED <<response, embeddings, np_random, embedded>>
    /\ UNCHANGED <<orders, requests, inventory, movements>>

\* line 240: evidences.append(vector_search(question, top_k=min(top_k, 10)))
VectorSearch(provider, outcome, n, elapsed) ==
    /\ pc = "vector"
    /\ n <= Min(top_k, 10)
    /\ evidences' = Append(evidences,
            vector_search(question, Min(top_k, 10), provider, outcome, n, elapsed))
    /\ calls' = calls \o <<[op |-> "vector_search"]>> \o VectorCalls(Min(top_k, 10), provider)
    /\ backend' = Append(backend, VectorBackend(provider, outcome, n, elapsed))
    /\ now' = now + (IF supabase THEN elapsed ELSE 0)
    /\ pc' = "sql"
    /\ UNCHANGED <<supabase, OPENAI_API_KEY, body, question, filters, top_k, intents,
                   rendered, answer>>
    /\ UNCHANGED <<response, embeddings, np_random, embedded>>
    /\ UNCHANGED <<orders, requests, inventory, movements>>

\* lines 241-244: one turn of the loop over intents
RunSql(outcome, elapsed) ==
    /\ pc = "sql"
    /\ Len(evidences) <= Len(intents)
    /\ LET it == intents[Len(evidences)]
           ev == run_sql(it.sql, it.params, outcome, elapsed)
       IN  /\ evidences' = Append(evidences, Relabel(ev, it.domain))
           /\ calls' = calls \o <<[op |-> "run_sql", domain |-> it.domain]>>
                       \o (IF supabase THEN SqlCalls(it.sql, it.params) ELSE <<>>)
           /\ backend' = Append(backend, SqlBackend(it.sql, it.params, outcome, elapsed))
    /\ now' = now + (IF supabase THEN elapsed ELSE 0)
    /\ UNCHANGED <<supabase, OPENAI_API_KEY, body, pc, question, filters, top_k, intents,
                   rendered, answer>>
    /\ UNCHANGED <<response, embeddings, np_random, embedded>>
    /\ UNCHANGED <<orders, requests, inventory, movements>>

\* a loop over intents that is left after the vector retrieval alone
LoopLeftEarly(evs, its) == Len(evs) >= 1

\* lines 240-244: the vector batch and one batch per intent have been appended
LoopDone(evs, its) == Len(evs) = Len(its) + 1

\* lines 246-249: format_answer and the response
Consolidate ==
    /\ pc = "sql"
    /\ LoopDone(evidences, intents)
    /\ answer' = format_answer(question, evidences)
    /\ rendered' = IF TotalRows(evidences) = 0 THEN <<>> ELSE Rendered(evidences)
    /\ pc' = "responded"
    /\ UNCHANGED <<supabase, OPENAI_API_KEY, body, question, filters, top_k, intents,
                   evidences, now, calls, backend>>
    /\ UNCHANGED <<response, embeddings, np_random, embedded>>
    /\ UNCHANGED <<orders, requests, inventory, movements>>

Next ==
    \/ ParseRaise
    \/ Parse
    \/ \E provider \in Outcomes, outcome \in Outcomes, n \in 0..Len(EMBEDDING_MATCHES),
          elapsed \in Delays : VectorSearch(provider, outcome, n, elapsed)
    \/ \E outcome \in Outcomes, elapsed \in Delays : RunSql(outcome, elapsed)
    \/ Consolidate

Spec == Init /\ [][Next]_vars

-----------------------------------------------------------------------------
(* format_answer on its own: the evidence lists it is applied to *)

\* a row whose only allow-listed field is null
ROW_NULL == [sku |-> None, name |-> S("Widget A")]

\* rows of a batch repeat one of these patterns
RowPatterns == {<<TABLE_ORDERS[1]>>, <<EMBEDDING_MATCHES[1]>>, <<ROW_NULL, TABLE_INVENTORY[1]>>}

Cycle(pattern, n) == [i \in 1..n |-> pattern[((i - 1) % Len(pattern)) + 1]]

RowSeqs == {Cycle(p, n) : p \in RowPatterns, n \in 0..MaxRows}

Batches == {RetrievalResult(s, rows, 0) : s \in {"vector", "inventory"}, rows \in RowSeqs}

EvidenceLists == UNION {[1..n -> Batches] : n \in 0..MaxBatches}

InitFormat ==
    /\ supabase = TRUE
    /\ OPENAI_API_KEY = TRUE
    /\ body = EMPTY
    /\ pc = "format"
    /\ question = Q_SKU
    /\ filters = EMPTY
    /\ top_k = DEFAULT_TOP_K
    /\ intents = <<>>
    /\ evidences \in EvidenceLists
    /\ rendered = <<>>
    /\ answer = NoAnswer
    /\ now = 0
    /\ calls = <<>>
    /\ backend = <<>>
    /\ response = NoResponse
    /\ embeddings = <<>>
    /\ np_random = SEED
    /\ embedded = <<>>
    /\ orders = <<>>
    /\ requests = <<>>
    /\ inventory = <<>>
    /\ movements = <<>>

\* format_answer(question, evidences), lines 165-198
FormatAnswer ==
    /\ pc = "format"
    /\ answer' = format_answer(question, evidences)
    /\ rendered' = IF TotalRows(evidences) = 0 THEN <<>> ELSE Rendered(evidences)
    /\ pc' = "formatted"
    /\ UNCHANGED <<supabase, OPENAI_API_KEY, body, question, filters, top_k, intents,
                   evidences, now, calls, backend>>
    /\ UNCHANGED <<response, embeddings, np_random, embedded>>
    /\ UNCHANGED <<orders, requests, inventory, movements>>

SpecFormat == InitFormat /\ [][FormatAnswer]_vars

-----------------------------------------------------------------------------
(* run_sql on its own: the statements and parameters it is called with *)

\* "  SELECT * FROM Orders "
SQL_ORDERS_SPACED == <<" ", " ", "S", "E", "L", "E", "C", "T", " ", "*", " ", "F", "R", "O", "M", " ", "O", "r", "d", "e", "r", "s", " ">>

\* "delete from inventory"
SQL_DELETE == <<"d", "e", "l", "e", "t", "e", " ", "f", "r", "o", "m", " ", "i", "n", "v", "e", "n", "t", "o", "r", "y">>

\* "select now()"
SQL_SELECT_NOW == <<"s", "e", "l", "e", "c", "t", " ", "n", "o", "w", "(", ")">>

SqlChoices ==
    {SQL_INVENTORY, SQL_ORDERS, SQL_RISK_EVENTS, SQL_ANALYTICS_METRICS,
     SQL_ORDERS_SPACED, SQL_DELETE, SQL_SELECT_NOW}

ParamsChoices ==
    {EMPTY,
     [sku |-> S("SKU-1001")],
     [limit |-> I(1)],
     [limit |-> S("abc")],
     [status |-> S("shipped"), limit |-> I(2)],
     [severity |-> I(7)],
     [metric |-> S("otif"), since |-> I(14)],
     [rpc |-> S("truncate_table"), args |-> [t |-> S("orders")]],
     [rpc |-> S("match_embeddings")]}

InitSql ==
    /\ supabase \in BOOLEAN
    /\ OPENAI_API_KEY = FALSE
    /\ body = EMPTY
    /\ pc = "call"
    /\ question = <<>>
    /\ filters = EMPTY
    /\ top_k = DEFAULT_TOP_K
    /\ intents \in {<<[domain |-> "supabase", sql |-> s, params |-> p]>> :
                        s \in SqlChoices, p \in ParamsChoices}
    /\ evidences = <<>>
    /\ rendered = <<>>
    /\ answer = NoAnswer
    /\ now = 0
    /\ calls = <<>>
    /\ backend = <<>>
    /\ response = NoResponse
    /\ embeddings = <<>>
    /\ np_random = SEED
    /\ embedded = <<>>
    /\ orders = <<>>
    /\ requests = <<>>
    /\ inventory = <<>>
    /\ movements = <<>>

\* run_sql(sql, params), lines 71-132
CallRunSql(outcome, elapsed) ==
    /\ pc = "call"
    /\ LET it == intents[1]
       IN  /\ evidences' = <<run_sql(it.sql, it.params, outcome, elapsed)>>
           /\ calls' = <<[op |-> "run_sql", domain |-> it.domain]>>
                       \o (IF supabase THEN SqlCalls(it.sql, it.params) ELSE <<>>)
           /\ backend' = <<SqlBackend(it.sql, it.params, outcome, elapsed)>>
    /\ now' = now + (IF supabase THEN elapsed ELSE 0)
    /\ pc' = "returned"
    /\ UNCHANGED <<supabase, OPENAI_API_KEY, body, question, filters, top_k, intents,
                   rendered, answer>>
    /\ UNCHANGED <<response, embeddings, np_random, embedded>>
    /\ UNCHANGED <<orders, requests, inventory, movements>>

NextSql == \E outcome \in Outcomes, elapsed \in Delays : CallRunSql(outcome, elapsed)

SpecSql == InitSql /\ [][NextSql]_vars

-----------------------------------------------------------------------------
(* Claims about format_answer, checked under SpecFormat *)

\* number of rows of the batches before batch b
RECURSIVE RowsBefore(_, _)
RowsBefore(evs, b) == IF b <= 1 THEN 0 ELSE RowsBefore(evs, b - 1) + Len(evs[b - 1].rows)

RowCount(evs) == RowsBefore(evs, Len(evs) + 1)

NoRows(evs) == \A b \in 1..Len(evs) : evs[b].rows = <<>>

\* C1: the answer text is the insufficiency sentence exactly when the batches hold no
\* row at all; citations is empty then and non-empty otherwise.
C1_InsufficiencyIff ==
    pc = "formatted" =>
        /\ (answer.answer = INSUFFICIENT) <=> NoRows(evidences)
        /\ NoRows(evidences) => answer.citations = <<>>
        /\ ~NoRows(evidences) => answer.citations # <<>>

\* two batches, both without rows: the insufficiency branch
C1_Witness ==
    /\ pc = "formatted"
    /\ Len(evidences) = 2
    /\ NoRows(evidences)
    /\ answer.answer = INSUFFICIENT
    /\ answer.citations = <<>>

\* C2: with evidence, citations is the rows of the batches in batch order and row
\* order, each as {source of its batch, the whole row}: as many citations as rows.
C2_CitationsAreAllRows ==
    (pc = "formatted" /\ ~NoRows(evidences)) =>
        /\ Len(answer.citations) = RowCount(evidences)
        /\ \A b \in 1..Len(evidences) : \A r \in 1..Len(evidences[b].rows) :
              answer.citations[RowsBefore(evidences, b) + r] =
                  [source |-> evidences[b].source, row |-> evidences[b].rows[r]]

\* two batches with different labels, a row with only a null key field and a row with a field outside the allow-list
C2_Witness ==
    /\ pc = "formatted"
    /\ Len(evidences) = 2
    /\ evidences[1].source # evidences[2].source
    /\ Len(evidences[1].rows) = 2
    /\ evidences[1].rows[1] = ROW_NULL
    /\ Len(evidences[2].rows) = 1
    /\ "eta" \in DOMAIN evidences[2].rows[1]
    /\ Len(answer.citations) = 3
    /\ answer.citations[3].row = evidences[2].rows[1]

\* a row that yields a snippet: it has a non-null value for an allow-listed field
Keyed(row) == \E i \in 1..Len(KEY_FIELDS) : KEY_FIELDS[i] \in DOMAIN row /\ row[KEY_FIELDS[i]] # None

RECURSIVE KeyedIn(_)
KeyedIn(rows) ==
    IF Len(rows) = 0 THEN 0 ELSE (IF Keyed(Head(rows)) THEN 1 ELSE 0) + KeyedIn(Tail(rows))

RECURSIVE KeyedCount(_)
KeyedCount(evs) == IF Len(evs) = 0 THEN 0 ELSE KeyedIn(Head(evs).rows) + KeyedCount(Tail(evs))

\* C3 as stated: with more than 10 evidence rows the text carries 10 snippets and
\* citations has one entry per row.
C3_TenSnippetsPastTenRows ==
    (pc = "formatted" /\ RowCount(evidences) > 10) =>
        /\ Len(rendered) = 10
        /\ Len(answer.citations) = RowCount(evidences)

\* C3 amended: the text is the prefix and the first min(10, k) snippets in retrieval
\* order, k being the number of rows with a non-null allow-listed field; citations
\* has one entry per row, capped by nothing.
C3_SnippetsCappedCitationsNot ==
    (pc = "formatted" /\ ~NoRows(evidences)) =>
        /\ Len(rendered) = Min(10, KeyedCount(evidences))
        /\ rendered = SubSeq(Snippets(evidences), 1, Len(rendered))
        /\ answer.answer = PREFIX \o Join(rendered, "; ")
        /\ Len(answer.citations) = RowCount(evidences)

\* more than 10 rows that all yield a snippet: the cap cuts the text, not the citations
C3_Witness ==
    /\ pc = "formatted"
    /\ RowCount(evidences) > 10
    /\ KeyedCount(evidences) > 10
    /\ Len(rendered) = 10
    /\ Len(answer.citations) > 10

\* C4: in both branches the reported sources hold the label of every batch, in batch
\* order, whether or not the batch brought rows.
C4_SourcesOfEveryBatch ==
    pc = "formatted" =>
        /\ Len(answer.sources) = Len(evidences)
        /\ \A b \in 1..Len(evidences) : answer.sources[b] = evidences[b].source

\* the grounded branch with a first batch that brought no row
C4_Witness ==
    /\ pc = "formatted"
    /\ Len(evidences) = 2
    /\ evidences[1].rows = <<>>
    /\ evidences[2].rows # <<>>
    /\ evidences[1].source # evidences[2].source
    /\ answer.answer # INSUFFICIENT
    /\ answer.sources = <<evidences[1].source, evidences[2].source>>

-----------------------------------------------------------------------------
(* Claims about the chat request, checked under Spec; C10 under SpecSql *)

RECURSIVE CountOp(_, _)
CountOp(log, op) ==
    IF Len(log) = 0 THEN 0 ELSE (IF Head(log).op = op THEN 1 ELSE 0) + CountOp(Tail(log), op)

Range(seq) == {seq[i] : i \in 1..Len(seq)}

\* C5: a request that is processed makes exactly one vector retrieval, whatever the
\* question matches; its batch, labelled "vector", is the first of the evidence and
\* "vector" is in the sources of the response.
C5_VectorAlwaysConsulted ==
    /\ CountOp(calls, "vector_search") <= 1
    /\ pc \in {"sql", "responded"} =>
          /\ CountOp(calls, "vector_search") = 1
          /\ evidences[1].source = "vector"
    /\ pc = "responded" => "vector" \in Range(answer.sources)

\* a response to a question that matched several domains
C5_Witness ==
    /\ pc = "responded"
    /\ Len(intents) >= 2
    /\ CountOp(calls, "vector_search") = 1
    /\ answer.sources[1] = "vector"

\* the keyword list of each domain
DomainKeywords ==
    {<<"inventory", KW_INVENTORY>>, <<"orders", KW_ORDERS>>,
     <<"risk_events", KW_RISK>>, <<"analytics_metrics", KW_ANALYTICS>>}

\* run_sql was called for the domain
Consulted(d) == \E i \in 1..Len(calls) : calls[i].op = "run_sql" /\ calls[i].domain = d

\* C6: each domain is consulted exactly when the lower-cased question contains one of
\* its keywords, independently of the other domains, and is consulted once.
C6_RoutingPerDomain ==
    pc = "responded" =>
        /\ \A dk \in DomainKeywords :
              Consulted(dk[1]) <=> AnyIn(Lower(QuestionArg(body)), dk[2])
        /\ CountOp(calls, "run_sql") =
              Cardinality({dk \in DomainKeywords : AnyIn(Lower(QuestionArg(body)), dk[2])})
        /\ Range(answer.sources) \ {"vector"} = {dk[1] : dk \in {x \in DomainKeywords : Consulted(x[1])}}

\* "Reorder" consults inventory and orders and no other domain
C6_Witness ==
    /\ pc = "responded"
    /\ QuestionArg(body) = Q_REORDER
    /\ Consulted("inventory") /\ Consulted("orders")
    /\ ~Consulted("risk_events") /\ ~Consulted("analytics_metrics")
    /\ answer.sources = <<"vector", "inventory", "orders">>

StructuredLabels(ans) ==
    (Range(ans.sources) \cup {ans.citations[i].source : i \in 1..Len(ans.citations)}) \ {"vector"}

RECURSIVE DataBefore(_, _)
DataBefore(did, i) == IF i <= 1 THEN 0 ELSE DataBefore(did, i - 1) + Len(did[i - 1].data)

\* C8: a source whose call raised contributes an empty batch, and the citations of the
\* response are the rows the other sources returned, in retrieval order.
C8_FailureIsolation ==
    pc = "responded" =>
        /\ Len(backend) = Len(evidences)
        /\ \A i \in 1..Len(backend) : backend[i].failed => evidences[i].rows = <<>>
        /\ Len(answer.citations) = DataBefore(backend, Len(backend) + 1)
        /\ \A i \in 1..Len(backend) : \A r \in 1..Len(backend[i].data) :
              answer.citations[DataBefore(backend, i) + r] =
                  [source |-> answer.sources[i], row |-> backend[i].data[r]]

\* the second of three sources raised, the first and the third returned rows
C8_Witness ==
    /\ pc = "responded"
    /\ Len(backend) = 3
    /\ ~backend[1].failed /\ backend[1].data # <<>>
    /\ backend[2].failed
    /\ ~backend[3].failed /\ backend[3].data # <<>>
    /\ Len(answer.citations) = Len(backend[1].data) + Len(backend[3].data)

\* C9: a request for which no source yields a row ends in a normal response carrying
\* the insufficiency sentence and no citation; no exception leaves the handler.
C9_InsufficiencyNeverAnException ==
    (pc \in {"responded", "raised"} /\ NoRows(evidences)) =>
        /\ pc = "responded"
        /\ answer.answer = INSUFFICIENT
        /\ answer.citations = <<>>

\* C10 as stated: a run_sql whose store is not configured or whose call to the store
\* raises returns zero rows and zero latency.
C10_ZeroRowsZeroLatency ==
    \A i \in 1..Len(evidences) :
        (evidences[i].source # "vector" /\ (~supabase \/ backend[i].failed)) =>
            evidences[i].rows = <<>> /\ evidences[i].query_ms = 0

\* C10 amended: run_sql never raises; with no store configured it returns zero rows
\* and zero latency, and when its call to the store raises it returns zero rows and
\* the time that passed as latency.
C10_ZeroRowsOnFailure ==
    /\ pc = "raised" => calls = <<>>
    /\ pc = "returned" => Len(evidences) = 1
    /\ \A i \in 1..Len(evidences) :
          evidences[i].source # "vector" =>
              /\ ~supabase => evidences[i].rows = <<>> /\ evidences[i].query_ms = 0
              /\ backend[i].failed =>
                    evidences[i].rows = <<>> /\ evidences[i].query_ms = backend[i].elapsed

\* a configured store whose call raised after some time
C10_Witness ==
    /\ pc = "returned"
    /\ supabase
    /\ backend[1].failed
    /\ evidences[1].rows = <<>>
    /\ evidences[1].query_ms > 0

-----------------------------------------------------------------------------
(* Claims about vector_search, run_sql, format_answer and the requests of post *)

\* C11: vector_search always returns a batch. When no query embedding is obtained
\* (no provider key, or the provider call raises) the batch is empty and the match
\* RPC is not sent; when the match RPC raises the batch is empty.
C11_VectorSearchDegrades ==
    [][\A provider \in Outcomes, outcome \in Outcomes, n \in 0..Len(EMBEDDING_MATCHES),
          elapsed \in Delays :
          VectorSearch(provider, outcome, n, elapsed) =>
              /\ pc' = "sql"
              /\ Len(evidences') = 1
              /\ ~HasEmbedding(provider) =>
                    /\ evidences'[1].rows = <<>>
                    /\ CountOp(calls', "rpc") = 0
              /\ outcome = "raise" => evidences'[1].rows = <<>>]_vars

\* the provider was called and failed: a key is set, the store is configured, the
\* embedding request is in the log, no match RPC follows it and the batch is empty
C11_Witness ==
    /\ pc = "sql"
    /\ Len(evidences) = 1
    /\ supabase
    /\ OPENAI_API_KEY
    /\ backend[1].failed
    /\ CountOp(calls, "embed") = 1
    /\ CountOp(calls, "rpc") = 0
    /\ evidences[1].rows = <<>>

\* the keys of params each branch of run_sql reads
DomainKeys(table) ==
    CASE table = "inventory" -> {"sku", "limit"}
      [] table = "orders" -> {"order_id", "status", "limit"}
      [] table = "risk_events" -> {"severity", "since"}
      [] table = "analytics_metrics" -> {"metric", "since"}

Restrict(m, keys) == [k \in DOMAIN m \cap keys |-> m[k]]

\* C12: a structured query of one of the four domains sends the store the request it
\* sends when the keys outside the domain's list are removed from params, and
\* returns the rows of that request: the extra keys add no restriction and no failure.
C12_ForeignKeysIgnored ==
    pc = "returned" =>
        LET it == intents[1]
            table == Route(it.sql)
            kept == Restrict(it.params, DomainKeys(table))
        IN  table # "rpc" =>
              /\ Tail(calls) = (IF supabase THEN SqlCalls(it.sql, kept) ELSE <<>>)
              /\ LimitRaises(table, it.params) = LimitRaises(table, kept)
              /\ evidences[1].rows =
                    (IF ~supabase \/ backend[1].failed THEN <<>>
                     ELSE SqlRows(it.sql, kept, "ok"))

\* a risk query whose params carry limit = "abc", a key the risk branch does not
\* read: the query is sent without it and its rows come back
C12_Witness ==
    /\ pc = "returned"
    /\ supabase
    /\ Route(intents[1].sql) = "risk_events"
    /\ intents[1].params = [limit |-> S("abc")]
    /\ Len(calls) = 2
    /\ calls[2].conds = <<>>
    /\ Len(evidences[1].rows) = Len(TABLE_RISK_EVENTS)

\* C13: the answer text, the citations and the sources format_answer returns for a
\* list of batches are those it returns for the same list under any other question.
C13_QuestionIndependence ==
    pc = "formatted" =>
        \A q \in {Q_BLANK, Q_ETA, Q_THREE} : format_answer(q, evidences) = answer

\* an answer built from rows for the question "SKU stock", compared with the answer
\* for a blank question, an orders question and a three-domain question
C13_Witness ==
    /\ pc = "formatted"
    /\ question = Q_SKU
    /\ TotalRows(evidences) > 0
    /\ answer.answer # INSUFFICIENT
    /\ answer.citations # <<>>

\* the requests C14 calls invalid: question missing or blank once trimmed, or a top_k
\* that int() does not accept
InvalidRequest(b) == Strip(QuestionArg(b)) = <<>> \/ IntRaises(TopKArg(b))

\* C14: an invalid request goes no further than a rejection: it reaches neither the
\* vector retrieval, nor a structured retrieval, nor a response, nor an exception,
\* and no retrieval is called for it.
C14_InvalidRequestsRejected ==
    InvalidRequest(body) =>
        /\ pc \in {"start", "rejected"}
        /\ calls = <<>>

\* C15: a request without top_k is read, routed and retrieved as the same request
\* carrying top_k = 8: top_k is 8, the intents are those of the request with
\* top_k = 8 (limit 8 for inventory and orders), and the vector retrieval asks for
\* min(8, 10) = 8 neighbours.
C15_AbsentTopKIsEight ==
    ("top_k" \notin DOMAIN body /\ pc # "start") =>
        LET b8 == With(body, "top_k", I(8))
        IN  /\ b8 \in Bodies
            /\ pc # "raised"
            /\ top_k = 8
            /\ question = Strip(QuestionArg(b8))
            /\ filters = FiltersArg(b8)
            /\ intents = Intents(Strip(QuestionArg(b8)), FiltersArg(b8), TopKArg(b8).n)
            /\ \A i \in 1..Len(calls) :
                  (calls[i].op = "rpc" /\ calls[i].fn = S("match_embeddings")) =>
                      calls[i].args.match_count = 8

\* a response to a request without top_k: the inventory query was limited to 8 rows
\* and the match RPC was asked for 8 neighbours
C15_Witness ==
    /\ pc = "responded"
    /\ "top_k" \notin DOMAIN body
    /\ Len(intents) >= 1
    /\ intents[1].domain = "inventory"
    /\ intents[1].params["limit"] = I(8)
    /\ \E i \in 1..Len(calls) : calls[i].op = "rpc" /\ calls[i].args.match_count = 8

-----------------------------------------------------------------------------
(* embed_texts of the seeding script *)

\* EMBED_DIM, cut down to the components the model keeps
EmbedDim == 2

\* longest batch of texts handed to one call
MaxTexts == 2

\* number of embed_texts calls of one run
MaxEmbedCalls == 2

\* the texts that are embedded
SEED_TEXTS == <<"Spec Sheet: GPU Crimson", "GPU lead time under 10 days">>

TextBatches == UNION {[1..n -> Range(SEED_TEXTS)] : n \in 0..MaxTexts}

\* numpy's global generator: a full-period linear congruential generator stands for
\* the Mersenne Twister; the state after one more draw
RngModulus == 64

RngNext(s) == (5 * s + 3) % RngModulus

RECURSIVE RngAfter(_, _)
RngAfter(s, k) == IF k = 0 THEN s ELSE RngAfter(RngNext(s), k - 1)

\* the k-th sample drawn from state s, centred on zero as a standard normal is
Sample(s, k) == RngAfter(s, k) - (RngModulus \div 2)

Dot(a, b) ==
    LET Sum[i \in 0..Len(a)] == IF i = 0 THEN 0 ELSE a[i] * b[i] + Sum[i - 1]
    IN  Sum[Len(a)]

\* row / np.linalg.norm(row): the unit vector num / sqrt(norm2)
Unit(row) == [num |-> row, norm2 |-> Dot(row, row)]

Sign(x) == IF x > 0 THEN 1 ELSE IF x < 0 THEN 0 - 1 ELSE 0

\* equality of two unit vectors, component by component
SameVector(a, b) ==
    \A i \in 1..Len(a.num) :
        /\ Sign(a.num[i]) = Sign(b.num[i])
        /\ a.num[i] * a.num[i] * b.norm2 = b.num[i] * b.num[i] * a.norm2

TextIndex(text) == CHOOSE i \in 1..Len(SEED_TEXTS) : SEED_TEXTS[i] = text

\* the vector a real backend gives a text: a function of the backend and the text
BackendVector(tier, text) ==
    Unit([i \in 1..EmbedDim |-> TextIndex(text) + i * (IF tier = "openai" THEN 1 ELSE 2)])

\* lines 69-72: np.random.randn(len(texts), EMBED_DIM), each row divided by its norm;
\* row i takes the samples (i - 1) * EMBED_DIM + 1 .. i * EMBED_DIM after the state
RandomUnitVectors(texts, state) ==
    [i \in 1..Len(texts) |->
        Unit([j \in 1..EmbedDim |-> Sample(state, (i - 1) * EmbedDim + j)])]

\* the backend embed_texts ends up using: openai and hf say whether each import and
\* call returns or raises
Tier(openai, hf) ==
    IF openai = "ok" THEN "openai" ELSE IF hf = "ok" THEN "hf" ELSE "random"

\* embed_texts(texts), lines 50-72
embed_texts(texts, openai, hf, state) ==
    IF Tier(openai, hf) = "random"
    THEN RandomUnitVectors(texts, state)
    ELSE [i \in 1..Len(texts) |-> BackendVector(Tier(openai, hf), texts[i])]

InitSeed ==
    /\ supabase = TRUE
    /\ OPENAI_API_KEY \in BOOLEAN
    /\ body = EMPTY
    /\ pc = "seed"
    /\ question = <<>>
    /\ filters = EMPTY
    /\ top_k = DEFAULT_TOP_K
    /\ intents = <<>>
    /\ evidences = <<>>
    /\ rendered = <<>>
    /\ answer = NoAnswer
    /\ now = 0
    /\ calls = <<>>
    /\ backend = <<>>
    /\ response = NoResponse
    /\ embeddings = <<>>
    /\ np_random = SEED % RngModulus
    /\ embedded = <<>>
    /\ orders = <<>>
    /\ requests = <<>>
    /\ inventory = <<>>
    /\ movements = <<>>

\* one call of embed_texts (lines 222, 309); without a key OpenAI() raises
EmbedTexts(texts, openai, hf) ==
    /\ pc = "seed"
    /\ Len(embedded) < MaxEmbedCalls
    /\ openai = "ok" => OPENAI_API_KEY
    /\ embedded' = Append(embedded,
            [tier |-> Tier(openai, hf), texts |-> texts,
             vecs |-> embed_texts(texts, openai, hf, np_random)])
    /\ np_random' = IF Tier(openai, hf) = "random"
                    THEN RngAfter(np_random, Len(texts) * EmbedDim)
                    ELSE np_random
    /\ UNCHANGED <<supabase, OPENAI_API_KEY, body, pc, question, filters, top_k, intents,
                   evidences, rendered, answer, now, calls, backend, response, embeddings>>
    /\ UNCHANGED <<orders, requests, inventory, movements>>

NextSeed ==
    \E texts \in TextBatches, openai \in Outcomes, hf \in Outcomes :
        EmbedTexts(texts, openai, hf)

SpecSeed == InitSeed /\ [][NextSeed]_vars

\* the vectors the last-resort branch has returned, with their texts
FallbackVectors ==
    UNION {{[text |-> embedded[c].texts[i], vec |-> embedded[c].vecs[i]] :
                i \in 1..Len(embedded[c].texts)} :
           c \in {d \in 1..Len(embedded) : embedded[d].tier = "random"}}

\* C16: two vectors the fallback returns for the same text, in one batch or in two
\* successive calls, are the same vector.
C16_FallbackIsPure ==
    \A x \in FallbackVectors, y \in FallbackVectors :
        x.text = y.text => SameVector(x.vec, y.vec)

-----------------------------------------------------------------------------
(* The table ai_vector_embeddings, embedding creation and semantic search *)

\* most rows the table holds
MaxStored == 3

EMBED_TEXTS == <<"pump seal kit", "valve actuator">>

EMBED_MODELS == <<"text-embedding-ada-002", "text-embedding-3-small">>

SOURCE_TYPES == {"document", "message"}

\* the provider's vector for a text under a model: unit vectors, in tenths
EmbedVector(text, model) ==
    CASE text = EMBED_TEXTS[1] /\ model = EMBED_MODELS[1] -> <<10, 0>>
      [] text = EMBED_TEXTS[1] /\ model = EMBED_MODELS[2] -> <<8, 6>>
      [] text = EMBED_TEXTS[2] /\ model = EMBED_MODELS[1] -> <<6, 8>>
      [] text = EMBED_TEXTS[2] /\ model = EMBED_MODELS[2] -> <<0, 10>>

\* content_hash: the fingerprint derived from the content
ContentHash(text) == "sha256(" \o text \o ")"

\* a row of VectorEmbedding
VectorEmbedding(id, text, model, source_type) ==
    [id |-> id, content |-> text, content_hash |-> ContentHash(text),
     embedding_vector |-> EmbedVector(text, model), embedding_model |-> model,
     source_type |-> source_type]

\* Meta.unique_together = ['content_hash', 'embedding_model']: whether the table
\* accepts the row
UniqueTogether(table, row) ==
    \A i \in 1..Len(table) :
        ~(table[i].content_hash = row.content_hash
          /\ table[i].embedding_model = row.embedding_model)

\* an INSERT into a table without the unique constraint
InsertUnchecked(table, row) == Append(table, row)

\* INSERT: the constraint rejects the row (IntegrityError) or the row is stored
Insert(table, row) == IF UniqueTogether(table, row) THEN Append(table, row) ELSE table

\* creation of one embedding: the row is always inserted, without a lookup first
CreateEmbedding(text, model, source_type) ==
    /\ pc = "serving"
    /\ Len(embeddings) < MaxStored
    /\ LET row == VectorEmbedding(Len(embeddings) + 1, text, model, source_type)
       IN  /\ embeddings' = Insert(embeddings, row)
           /\ response' =
                IF UniqueTogether(embeddings, row)
                THEN [status |-> 201, data |-> [embedding_id |-> I(row.id), model |-> S(model)]]
                ELSE [status |-> 500, data |-> [detail |-> S("IntegrityError")]]
    /\ UNCHANGED <<supabase, OPENAI_API_KEY, body, pc, question, filters, top_k, intents,
                   evidences, rendered, answer, now, calls, backend, np_random, embedded>>
    /\ UNCHANGED <<orders, requests, inventory, movements>>

\* SemanticSearchRequestSerializer: top_k default and range, threshold default (in
\* hundredths)
TOP_K_DEFAULT == 5

TOP_K_MAX == 50

THRESHOLD_DEFAULT == 70

\* request.data of a semantic search
SearchBodies ==
    {[k \in keys |-> CASE k = "query" -> S(EMBED_TEXTS[1])
                       [] k = "top_k" -> t
                       [] k = "threshold" -> I(0)
                       [] k = "source_types" -> <<"document">>] :
        keys \in SUBSET {"query", "top_k", "threshold", "source_types"},
        t \in {I(1), I(2), I(60)}}

\* serializer.errors: the fields that fail validation
SemanticSearchRequestErrors(b) ==
    {k \in {"query"} : k \notin DOMAIN b}
    \cup {k \in {"top_k"} : k \in DOMAIN b /\ (b[k].t # "int" \/ b[k].n < 1 \/ b[k].n > TOP_K_MAX)}
    \cup {k \in {"threshold"} : k \in DOMAIN b /\ (b[k].t # "int" \/ b[k].n < 0 \/ b[k].n > 100)}

\* serializer.validated_data: the fields with their defaults
SemanticSearchRequestData(b) ==
    [query |-> b["query"].s,
     top_k |-> IF "top_k" \in DOMAIN b THEN b["top_k"].n ELSE TOP_K_DEFAULT,
     threshold |-> IF "threshold" \in DOMAIN b THEN b["threshold"].n ELSE THRESHOLD_DEFAULT,
     source_types |-> IF "source_types" \in DOMAIN b THEN <<b["source_types"]>> ELSE <<>>]

\* similarity of two unit vectors (tenths): their dot product, in hundredths
Similarity(a, b) == Dot(a, b)

SearchHit(row, qvec) ==
    [content |-> row.content, similarity_score |-> Similarity(qvec, row.embedding_vector),
     source_type |-> row.source_type, embedding_id |-> row.id]

\* the rows of the table whose source_type passes the filter, in table order, scored
Candidates(table, req, qvec) ==
    LET keep(row) == req.source_types = <<>>
                     \/ row.source_type \in Range(req.source_types[1])
    IN  Flatten([i \in 1..Len(table) |->
            IF keep(table[i]) THEN <<SearchHit(table[i], qvec)>> ELSE <<>>])

\* hits below the threshold are discarded
AboveThreshold(hits, threshold) ==
    Flatten([i \in 1..Len(hits) |->
        IF hits[i].similarity_score >= threshold THEN <<hits[i]>> ELSE <<>>])

\* hit put into a list sorted by score descending, after the hits of equal score
RECURSIVE InsertByScore(_, _)
InsertByScore(sorted, hit) ==
    IF sorted = <<>> THEN <<hit>>
    ELSE IF Head(sorted).similarity_score >= hit.similarity_score
         THEN <<Head(sorted)>> \o InsertByScore(Tail(sorted), hit)
         ELSE <<hit>> \o sorted

\* stable sort by score, descending
RECURSIVE SortByScore(_)
SortByScore(hits) ==
    IF hits = <<>> THEN <<>>
    ELSE InsertByScore(SortByScore(Take(hits, Len(hits) - 1)), hits[Len(hits)])

\* ranking that keeps the candidates in table order
RankUnsorted(table, req, qvec) ==
    Take(AboveThreshold(Candidates(table, req, qvec), req.threshold), req.top_k)

\* rank: filter, score, threshold, sort, truncate to top_k
Rank(table, req, qvec) ==
    Take(SortByScore(AboveThreshold(Candidates(table, req, qvec), req.threshold)), req.top_k)

\* one semantic search: the request is validated, then ranked against the table
SemanticSearch ==
    /\ pc = "serving"
    /\ pc' = "searched"
    /\ response' =
          IF SemanticSearchRequestErrors(body) # {}
          THEN [status |-> 400,
                data |-> [k \in SemanticSearchRequestErrors(body) |-> S("invalid")]]
          ELSE LET req == SemanticSearchRequestData(body)
                   results == Rank(embeddings, req, EmbedVector(req.query, EMBED_MODELS[1]))
               IN  [status |-> 200,
                    data |-> [results |-> results, total_results |-> Len(results)]]
    /\ UNCHANGED <<supabase, OPENAI_API_KEY, body, question, filters, top_k, intents,
                   evidences, rendered, answer, now, calls, backend, embeddings,
                   np_random, embedded>>
    /\ UNCHANGED <<orders, requests, inventory, movements>>

InitSearch ==
    /\ supabase = TRUE
    /\ OPENAI_API_KEY = TRUE
    /\ body \in SearchBodies
    /\ pc = "serving"
    /\ question = <<>>
    /\ filters = EMPTY
    /\ top_k = DEFAULT_TOP_K
    /\ intents = <<>>
    /\ evidences = <<>>
    /\ rendered = <<>>
    /\ answer = NoAnswer
    /\ now = 0
    /\ calls = <<>>
    /\ backend = <<>>
    /\ response = NoResponse
    /\ embeddings = <<>>
    /\ np_random = SEED
    /\ embedded = <<>>
    /\ orders = <<>>
    /\ requests = <<>>
    /\ inventory = <<>>
    /\ movements = <<>>

NextSearch ==
    \/ \E text \in Range(EMBED_TEXTS), model \in Range(EMBED_MODELS),
          source_type \in SOURCE_TYPES : CreateEmbedding(text, model, source_type)
    \/ SemanticSearch

SpecSearch == InitSearch /\ [][NextSearch]_vars

\* C17: the results of a semantic search that passed validation are in non-increasing
\* order of similarity_score, each score is at least the threshold of the request and
\* there are at most top_k of them (threshold and top_k with their defaults).
C17_RankingContract ==
    (pc = "searched" /\ response.status = 200) =>
        LET req == SemanticSearchRequestData(body)
            results == response.data.results
        IN  /\ \A i \in 1..(Len(results) - 1) :
                  results[i].similarity_score >= results[i + 1].similarity_score
            /\ \A i \in 1..Len(results) : results[i].similarity_score >= req.threshold
            /\ Len(results) <= req.top_k

\* a search with top_k = 2 and threshold 0 over three stored rows: one hit is cut
\* off and the two returned are not in table order
C17_Witness ==
    /\ pc = "searched"
    /\ response.status = 200
    /\ Len(embeddings) = 3
    /\ "top_k" \in DOMAIN body /\ body["top_k"] = I(2)
    /\ "threshold" \in DOMAIN body
    /\ "source_types" \notin DOMAIN body
    /\ Len(response.data.results) = 2
    /\ response.data.results[1].similarity_score > response.data.results[2].similarity_score
    /\ response.data.results[1].embedding_id > response.data.results[2].embedding_id

\* C18: whatever embeddings have been created, no two rows of the table have the same
\* (content_hash, embedding_model), hence no two have the same (content,
\* embedding_model).
C18_UniquePerHashAndModel ==
    \A i, j \in 1..Len(embeddings) :
        i # j =>
            /\ ~(embeddings[i].content_hash = embeddings[j].content_hash
                 /\ embeddings[i].embedding_model = embeddings[j].embedding_model)
            /\ ~(embeddings[i].content = embeddings[j].content
                 /\ embeddings[i].embedding_model = embeddings[j].embedding_model)

\* a second creation for a stored text and model was refused, after which the table
\* holds two rows of the same text under different models
C18_Witness ==
    /\ pc = "serving"
    /\ response.status = 500
    /\ Len(embeddings) = 2
    /\ embeddings[1].content = embeddings[2].content
    /\ embeddings[1].embedding_model # embeddings[2].embedding_model

-----------------------------------------------------------------------------
(* AnalyticsViewSet.query *)

\* AnalyticsQuerySerializer: the choices of each field
METRICS ==
    {"risk_events_count", "risk_score_avg", "supplier_performance",
     "anomaly_detection_count", "mitigation_effectiveness", "trend_analysis",
     "risk_distribution"}

ENTITY_TYPES == {"supplier", "product", "order", "category", "global"}

TIME_PERIODS == {"7d", "30d", "90d", "180d", "365d", "all"}

AGGREGATIONS == {"day", "week", "month", "quarter"}

\* timezone.now(), as a day number
TODAY == 400

\* rows of RiskEvent: risk_score in tenths, created_at as a day number
RISK_EVENT_ROWS ==
    <<[id |-> 1, severity |-> "HIGH", risk_type |-> "SUPPLIER", risk_score |-> 72,
       created_at |-> 395, supplier_id |-> "S1"],
      [id |-> 2, severity |-> "LOW", risk_type |-> "LOGISTICS", risk_score |-> 15,
       created_at |-> 380, supplier_id |-> "S2"],
      [id |-> 3, severity |-> "HIGH", risk_type |-> "SUPPLIER", risk_score |-> 90,
       created_at |-> 200, supplier_id |-> "S1"]>>

ANOMALY_ROWS ==
    <<[anomaly_type |-> "DEMAND_SPIKE", entity_type |-> "supplier", entity_id |-> "S1",
       detected_at |-> 398],
      [anomaly_type |-> "PRICE_ANOMALY", entity_type |-> "product", entity_id |-> "P1",
       detected_at |-> 300]>>

\* rows of SupplierKPI in the order of order_by('supplier_id', 'kpi_type', '-period_end')
KPI_ROWS ==
    <<[supplier_id |-> "S1", kpi_type |-> "ON_TIME_DELIVERY", period_end |-> 390, value |-> 95],
      [supplier_id |-> "S1", kpi_type |-> "ON_TIME_DELIVERY", period_end |-> 360, value |-> 91],
      [supplier_id |-> "S2", kpi_type |-> "QUALITY_SCORE", period_end |-> 390, value |-> 88]>>

\* rows of RiskMitigation: effectiveness_score in tenths
MITIGATION_ROWS ==
    <<[risk_event |-> 1, status |-> "COMPLETED", effectiveness_score |-> 80],
      [risk_event |-> 1, status |-> "PLANNED", effectiveness_score |-> 60],
      [risk_event |-> 3, status |-> "COMPLETED", effectiveness_score |-> 40]>>

\* request.data of an analytics query
AnalyticsBodies ==
    {[k \in keys \cup ent |->
        CASE k = "metric" -> m
          [] k = "entity_type" -> S(e)
          [] k = "entity_id" -> S(IF e = "supplier" THEN "S1" ELSE "C1")
          [] k = "time_period" -> S(p)
          [] k = "aggregation" -> S("month")] :
        keys \in SUBSET {"metric", "time_period", "aggregation"},
        ent \in {{}, {"entity_type", "entity_id"}},
        m \in {S(x) : x \in METRICS} \cup {S("churn_rate"), S("")},
        e \in {"supplier", "category"},
        p \in {"all", "1y"}}

\* serializer.errors: the fields that fail validation
AnalyticsQueryErrors(b) ==
    LET bad(k, choices) == k \in DOMAIN b /\ (b[k].t # "str" \/ b[k].s \notin choices)
    IN  {k \in {"metric"} : k \notin DOMAIN b \/ bad(k, METRICS)}
        \cup {k \in {"entity_type"} : bad(k, ENTITY_TYPES)}
        \cup {k \in {"time_period"} : bad(k, TIME_PERIODS)}
        \cup {k \in {"aggregation"} : bad(k, AGGREGATIONS)}

\* serializer.validated_data: the fields with their defaults; entity_id "" when absent
AnalyticsQueryData(b) ==
    LET get(k, default) == IF k \in DOMAIN b THEN b[k].s ELSE default
    IN  [metric |-> get("metric", ""),
         entity_type |-> get("entity_type", "global"),
         entity_id |-> get("entity_id", ""),
         time_period |-> get("time_period", "30d"),
         aggregation |-> get("aggregation", "day")]

\* lines 120-128: since, as a day number; <<>> stands for None
Since(params) ==
    CASE params.time_period = "7d" -> <<TODAY - 7>>
      [] params.time_period = "30d" -> <<TODAY - 30>>
      [] params.time_period = "90d" -> <<TODAY - 90>>
      [] params.time_period = "180d" -> <<TODAY - 180>>
      [] params.time_period = "365d" -> <<TODAY - 365>>
      [] OTHER -> <<>>

\* line 140: the entity filter applies
EntityFiltered(params) == params.entity_type # "global" /\ params.entity_id # ""

\* line 142: RiskEvent has supplier_id, order_id and product_id and no category_id, so
\* the filter on category_id raises FieldError
FieldErrorRaised(params) == EntityFiltered(params) /\ params.entity_type = "category"

\* lines 131-145: the three querysets
RiskQs(params) ==
    LET keep(r) == /\ Since(params) = <<>> \/ r.created_at >= Since(params)[1]
                   /\ (EntityFiltered(params) /\ params.entity_type = "supplier")
                          => r.supplier_id = params.entity_id
                   /\ (EntityFiltered(params) /\ params.entity_type \in {"order", "product"})
                          => FALSE
    IN  SelectSeq(RISK_EVENT_ROWS, keep)

AnomalyQs(params) ==
    LET keep(r) == /\ Since(params) = <<>> \/ r.detected_at >= Since(params)[1]
                   /\ EntityFiltered(params) =>
                          (r.entity_type = params.entity_type /\ r.entity_id = params.entity_id)
    IN  SelectSeq(ANOMALY_ROWS, keep)

KpiQs(params) ==
    LET keep(r) == /\ Since(params) = <<>> \/ r.period_end >= Since(params)[1]
                   /\ (EntityFiltered(params) /\ params.entity_type = "supplier")
                          => r.supplier_id = params.entity_id
    IN  SelectSeq(KPI_ROWS, keep)

\* dict(qs.values_list(f).annotate(c=Count('id')).values_list(f, 'c'))
CountBy(rows, f) ==
    [v \in {rows[i][f] : i \in 1..Len(rows)} |->
        Cardinality({i \in 1..Len(rows) : rows[i][f] = v})]

SumOf(rows, f) ==
    LET Sum[i \in 0..Len(rows)] == IF i = 0 THEN 0 ELSE rows[i][f] + Sum[i - 1]
    IN  Sum[Len(rows)]

\* round(qs.aggregate(avg=Avg(f))['avg'] or 0.0, 2), in the unit of f
AvgOf(rows, f) == IF rows = <<>> THEN 0 ELSE (2 * SumOf(rows, f) + Len(rows)) \div (2 * Len(rows))

\* lines 162-167: the first row of each (supplier_id, kpi_type) in queryset order
LatestKpis(rows) ==
    LET first(i) == \A j \in 1..(i - 1) :
            ~(rows[j].supplier_id = rows[i].supplier_id /\ rows[j].kpi_type = rows[i].kpi_type)
    IN  Flatten([i \in 1..Len(rows) |-> IF first(i) THEN <<rows[i]>> ELSE <<>>])

\* lines 186-200: one bucket per step from start while d <= now
Buckets(params) ==
    LET delta == CASE params.aggregation = "day" -> 1
                   [] params.aggregation = "week" -> 7
                   [] params.aggregation = "month" -> 30
                   [] params.aggregation = "quarter" -> 90
        start == IF Since(params) = <<>> THEN TODAY - 180 ELSE Since(params)[1]
        within(rows, f, d) ==
            Cardinality({i \in 1..Len(rows) : rows[i][f] >= d /\ rows[i][f] < d + delta})
    IN  [n \in 1..((TODAY - start) \div delta + 1) |->
            LET d == start + (n - 1) * delta
            IN  [start |-> d, end |-> d + delta,
                 risk_events |-> within(RiskQs(params), "created_at", d),
                 anomalies |-> within(AnomalyQs(params), "detected_at", d)]]

\* lines 203-217: risk scores by band (scores in tenths)
Bins(rows) ==
    LET band(lo, hi) == Cardinality({i \in 1..Len(rows) :
                            rows[i].risk_score >= lo /\ rows[i].risk_score < hi})
    IN  [b02 |-> band(0 - 1000, 20), b24 |-> band(20, 40), b46 |-> band(40, 60),
         b68 |-> band(60, 80), b810 |-> band(80, 1000)]

\* lines 150-217: result for a recognized metric
MetricResult(params) ==
    CASE params.metric = "risk_events_count" ->
           [count |-> Len(RiskQs(params)),
            by_severity |-> CountBy(RiskQs(params), "severity"),
            by_type |-> CountBy(RiskQs(params), "risk_type")]
      [] params.metric = "risk_score_avg" ->
           [avg_score |-> AvgOf(RiskQs(params), "risk_score")]
      [] params.metric = "supplier_performance" ->
           [items |-> LatestKpis(KpiQs(params))]
      [] params.metric = "anomaly_detection_count" ->
           [count |-> Len(AnomalyQs(params)),
            by_type |-> CountBy(AnomalyQs(params), "anomaly_type")]
      [] params.metric = "mitigation_effectiveness" ->
           LET ids == {RiskQs(params)[i].id : i \in 1..Len(RiskQs(params))}
               mitigations == SelectSeq(MITIGATION_ROWS, LAMBDA m : m.risk_event \in ids)
               completed == SelectSeq(mitigations, LAMBDA m : m.status = "COMPLETED")
           IN  [total |-> Len(mitigations),
                completed |-> Len(completed),
                completion_rate |-> IF Len(mitigations) > 0
                                    THEN (100 * Len(completed)) \div Len(mitigations) ELSE 0,
                avg_effectiveness |-> AvgOf(mitigations, "effectiveness_score")]
      [] params.metric = "trend_analysis" -> [buckets |-> Buckets(params)]
      [] params.metric = "risk_distribution" -> [bins |-> Bins(RiskQs(params))]

Rejected(code, detail) == [status |-> code, data |-> detail]

\* query whose serializer takes any string as metric and whose chain of tests has no
\* final else: the empty result is returned for a metric it does not know
query_lenient(b) ==
    LET errors == AnalyticsQueryErrors(b) \ {k \in {"metric"} : k \in DOMAIN b}
        params == AnalyticsQueryData(b)
    IN  IF errors # {} THEN Rejected(400, [k \in errors |-> S("invalid")])
        ELSE IF FieldErrorRaised(params) THEN Rejected(500, [detail |-> S("FieldError")])
        ELSE IF params.metric \in METRICS THEN [status |-> 200, data |-> MetricResult(params)]
        ELSE [status |-> 200, data |-> EMPTY]

\* query(request), lines 113-221
query(b) ==
    LET errors == AnalyticsQueryErrors(b)
        params == AnalyticsQueryData(b)
    IN  IF errors # {} THEN Rejected(400, [k \in errors |-> S("invalid")])
        ELSE IF FieldErrorRaised(params) THEN Rejected(500, [detail |-> S("FieldError")])
        ELSE IF params.metric \in METRICS THEN [status |-> 200, data |-> MetricResult(params)]
        ELSE Rejected(400, [detail |-> S("Unknown metric")])

InitAnalytics ==
    /\ supabase = TRUE
    /\ OPENAI_API_KEY = TRUE
    /\ body \in AnalyticsBodies
    /\ pc = "query"
    /\ question = <<>>
    /\ filters = EMPTY
    /\ top_k = DEFAULT_TOP_K
    /\ intents = <<>>
    /\ evidences = <<>>
    /\ rendered = <<>>
    /\ answer = NoAnswer
    /\ now = 0
    /\ calls = <<>>
    /\ backend = <<>>
    /\ response = NoResponse
    /\ embeddings = <<>>
    /\ np_random = SEED
    /\ embedded = <<>>
    /\ orders = <<>>
    /\ requests = <<>>
    /\ inventory = <<>>
    /\ movements = <<>>

\* one POST to the query action
AnalyticsQuery ==
    /\ pc = "query"
    /\ response' = query(body)
    /\ pc' = "answered"
    /\ UNCHANGED <<supabase, OPENAI_API_KEY, body, question, filters, top_k, intents,
                   evidences, rendered, answer, now, calls, backend, embeddings,
                   np_random, embedded>>
    /\ UNCHANGED <<orders, requests, inventory, movements>>

SpecAnalytics == InitAnalytics /\ [][AnalyticsQuery]_vars

\* the request names a metric, and the metric is not one of the serializer's choices
NamesUnknownMetric(b) == "metric" \in DOMAIN b /\ b["metric"] \notin {S(x) : x \in METRICS}

\* C19: an analytics query naming an unrecognized metric is answered with an error
\* status and an error payload: never a 200, never a result, never an empty payload.
C19_UnknownMetricRejected ==
    (pc = "answered" /\ NamesUnknownMetric(body)) =>
        /\ response.status >= 400
        /\ response.data # EMPTY
        /\ DOMAIN response.data \subseteq {"metric", "entity_type", "time_period",
                                           "aggregation", "detail"}
        /\ "metric" \in DOMAIN response.data \/ "detail" \in DOMAIN response.data

\* the query for "churn_rate", every other field valid, was answered 400 with an
\* error on the field metric
C19_Witness ==
    /\ pc = "answered"
    /\ "metric" \in DOMAIN body /\ body["metric"] = S("churn_rate")
    /\ AnalyticsQueryErrors(body) = {"metric"}
    /\ response.status = 400
    /\ DOMAIN response.data = {"metric"}

\* C20: no answer exists before the response; when the response is built, the vector
\* retrieval and one structured retrieval per matched domain have been called and have
\* returned, and the answer is format_answer of exactly those batches: its sources
\* are "vector" followed by the matched domains, in order.
C20_JoinBeforeConsolidation ==
    /\ pc # "responded" => answer = NoAnswer
    /\ pc = "responded" =>
          /\ CountOp(calls, "vector_search") = 1
          /\ CountOp(calls, "run_sql") = Len(intents)
          /\ Len(backend) = 1 + Len(intents)
          /\ Len(evidences) = 1 + Len(intents)
          /\ answer = format_answer(question, evidences)
          /\ Len(answer.sources) = 1 + Len(intents)
          /\ answer.sources[1] = "vector"
          /\ \A i \in 1..Len(intents) : answer.sources[i + 1] = intents[i].domain

\* a response to a question matching three domains: four retrievals were made and the
\* answer cites rows of the last one
C20_Witness ==
    /\ pc = "responded"
    /\ Len(intents) = 3
    /\ Len(evidences) = 4
    /\ CountOp(calls, "run_sql") = 3
    /\ evidences[4].rows # <<>>
    /\ \E i \in 1..Len(answer.citations) : answer.citations[i].source = intents[3].domain

-----------------------------------------------------------------------------
(* Order status actions: orders/views.py *)

\* status actions handled over the life of the model
MaxCalls == 4

\* requests of the order endpoints that may be in flight together
MaxInflight == 2

\* request.user of a status action
USERS == {"alice", "bob"}

\* @action methods of PurchaseOrderViewSet
PURCHASE_ACTIONS == {"approve", "cancel", "mark_delivered"}

\* @action methods of SalesOrderViewSet
SALES_ACTIONS == {"confirm", "ship", "deliver", "cancel"}

\* a purchase order as the status actions first meet it
NewPurchaseOrder ==
    [status |-> "pending", approved_by |-> None, approved_at |-> None,
     cancelled_at |-> None, delivered_at |-> None]

\* a sales order as the status actions first meet it
NewSalesOrder ==
    [status |-> "pending", confirmed_by |-> None, confirmed_at |-> None,
     shipped_at |-> None, delivered_at |-> None, cancelled_at |-> None]

\* return Response({'error': ...}, status=400): nothing is saved
Refuse(order, message) ==
    [saved |-> FALSE, order |-> order,
     response |-> [status |-> 400, data |-> [error |-> message]]]

\* order.save() then return Response(serializer.data, status=200)
Saved(order) ==
    [saved |-> TRUE, order |-> order, response |-> [status |-> 200, data |-> order]]

\* PurchaseOrderViewSet.approve on the object it loaded
approve(order, user, t) ==
    IF order.status # "pending"
    THEN Refuse(order, "Only pending orders can be approved")
    ELSE Saved([order EXCEPT !.status = "approved", !.approved_by = user,
                             !.approved_at = I(t)])
\* a cancel that stamps cancelled_at and saves before it looks at the status
cancel_stamped(order, t) ==
    IF order.status \in {"delivered", "cancelled"}
    THEN [saved |-> TRUE, order |-> [order EXCEPT !.cancelled_at = I(t)],
          response |-> [status |-> 400,
                        data |-> [error |-> "Cannot cancel delivered or already cancelled orders"]]]
    ELSE Saved([order EXCEPT !.status = "cancelled", !.cancelled_at = I(t)])

\* PurchaseOrderViewSet.cancel and SalesOrderViewSet.cancel on the object loaded
cancel(order, t) ==
    IF order.status \in {"delivered", "cancelled"}
    THEN Refuse(order, "Cannot cancel delivered or already cancelled orders")
    ELSE Saved([order EXCEPT !.status = "cancelled", !.cancelled_at = I(t)])
\* mark_delivered without its status test
mark_delivered_unguarded(order, t) ==
    Saved([order EXCEPT !.status = "delivered", !.delivered_at = I(t)])

\* PurchaseOrderViewSet.mark_delivered on the object it loaded
mark_delivered(order, t) ==
    IF order.status # "approved"
    THEN Refuse(order, "Only approved orders can be marked as delivered")
    ELSE Saved([order EXCEPT !.status = "delivered", !.delivered_at = I(t)])

\* SalesOrderViewSet.confirm on the object it loaded
confirm(order, user, t) ==
    IF order.status # "pending"
    THEN Refuse(order, "Only pending orders can be confirmed")
    ELSE Saved([order EXCEPT !.status = "confirmed", !.confirmed_by = user,
                             !.confirmed_at = I(t)])
\* ship without its status test
ship_unguarded(order, t) ==
    Saved([order EXCEPT !.status = "shipped", !.shipped_at = I(t)])

\* SalesOrderViewSet.ship on the object it loaded
ship(order, t) ==
    IF order.status # "confirmed"
    THEN Refuse(order, "Only confirmed orders can be shipped")
    ELSE Saved([order EXCEPT !.status = "shipped", !.shipped_at = I(t)])

\* SalesOrderViewSet.deliver on the object it loaded
deliver(order, t) ==
    IF order.status # "shipped"
    THEN Refuse(order, "Only shipped orders can be marked as delivered")
    ELSE Saved([order EXCEPT !.status = "delivered", !.delivered_at = I(t)])

\* the router: the @action method the request's url names
StatusAction(view, action, order, user, t) ==
    CASE view = "purchase" /\ action = "approve" -> approve(order, user, t)
      [] view = "purchase" /\ action = "mark_delivered" -> mark_delivered(order, t)
      [] view = "sales" /\ action = "confirm" -> confirm(order, user, t)
      [] view = "sales" /\ action = "ship" -> ship(order, t)
      [] view = "sales" /\ action = "deliver" -> deliver(order, t)
      [] OTHER -> cancel(order, t)

\* the actions a viewset routes
ActionsOf(view) == IF view = "purchase" THEN PURCHASE_ACTIONS ELSE SALES_ACTIONS

\* the sequence without its i-th element
Without(seq, i) == SubSeq(seq, 1, i - 1) \o SubSeq(seq, i + 1, Len(seq))

InitOrders ==
    /\ supabase = TRUE
    /\ OPENAI_API_KEY = FALSE
    /\ body = EMPTY
    /\ pc = "orders"
    /\ question = ""
    /\ filters = EMPTY
    /\ top_k = DEFAULT_TOP_K
    /\ intents = <<>>
    /\ evidences = <<>>
    /\ rendered = <<>>
    /\ answer = NoAnswer
    /\ now = 1
    /\ calls = <<>>
    /\ backend = <<>>
    /\ response = NoResponse
    /\ embeddings = <<>>
    /\ np_random = SEED
    /\ embedded = <<>>
    /\ orders = [purchase |-> NewPurchaseOrder, sales |-> NewSalesOrder]
    /\ requests = <<>>
    /\ inventory = <<>>
    /\ movements = <<>>

\* order = self.get_object(): the row is read into the request's own object
GetObject(inflight, view, action, user) ==
    /\ Len(requests) < inflight
    /\ now + Len(requests) <= MaxCalls
    /\ requests' = Append(requests, [view |-> view, action |-> action, user |-> user,
                                     order |-> orders[view]])
    /\ UNCHANGED <<supabase, OPENAI_API_KEY, body, pc, question, filters, top_k, intents,
                   evidences, rendered, answer, now, calls, backend, response, embeddings,
                   np_random, embedded>>
    /\ UNCHANGED <<orders, inventory, movements>>

\* the rest of the method: the status test on the loaded object, then either the
\* error response or the assignments, order.save() (every column of the row is
\* written from the object) and the success response
Respond(i) ==
    /\ i \in 1..Len(requests)
    /\ LET r == requests[i]
           out == StatusAction(r.view, r.action, r.order, r.user, now)
       IN  /\ orders' = IF out.saved THEN [orders EXCEPT ![r.view] = out.order]
                                     ELSE orders
           /\ calls' = IF out.saved
                       THEN Append(calls, [op |-> "save", table |-> r.view,
                                           by |-> r.action, at |-> now])
                       ELSE calls
           /\ response' = out.response
    /\ requests' = Without(requests, i)
    /\ now' = now + 1
    /\ UNCHANGED <<supabase, OPENAI_API_KEY, body, pc, question, filters, top_k, intents,
                   evidences, rendered, answer, backend, embeddings, np_random, embedded>>
    /\ UNCHANGED <<inventory, movements>>

\* one request at a time: each is answered before the next arrives
NextOrders ==
    \/ \E view \in {"purchase", "sales"}, user \in USERS :
          \E action \in ActionsOf(view) : GetObject(1, view, action, user)
    \/ Respond(1)

SpecOrders == InitOrders /\ [][NextOrders]_vars

\* requests served by concurrent workers: any request in flight may be answered next
NextOrdersConcurrent ==
    \/ \E view \in {"purchase", "sales"}, user \in USERS :
          \E action \in ActionsOf(view) : GetObject(MaxInflight, view, action, user)
    \/ \E i \in 1..MaxInflight : Respond(i)

SpecOrdersConcurrent == InitOrders /\ [][NextOrdersConcurrent]_vars

-----------------------------------------------------------------------------
(* Stock adjustments: inventory/views.py *)

\* the inventory item before any adjustment
InitialItem == [quantity |-> 10]

\* request.data of adjust_stock: a receipt, a write-off with a reason, no
\* adjustment at all (the default 0) and an adjustment sent as text
StockBodies ==
    {[adjustment |-> I(3)],
     [adjustment |-> I(0 - 2), reason |-> S("damaged")],
     EMPTY,
     [adjustment |-> S("5")]}

\* request.data.get(key, default)
DataGet(data, key, default) == IF key \in DOMAIN data THEN data[key] ELSE default

\* a block whose statements are committed one by one
autocommit(before, reached, raised) == reached

\* with transaction.atomic(): when the block raises, its writes are rolled back
atomic(before, reached, raised) == IF raised THEN before ELSE reached

\* the 500 a raised exception ends the request with
ServerError == [status |-> 500, data |-> EMPTY]

\* adjust_stock after get_object(): item is the object loaded, db the tables
\* (inventory row, movements, committed saves); outcome is what the insert of the
\* movement does. inventory_item.quantity += adjustment raises TypeError for an
\* adjustment that is not a number, before anything is written
adjust_stock(item, data, db, outcome) ==
    LET adjustment == DataGet(data, "adjustment", I(0))
        reason == DataGet(data, "reason", S("Manual adjustment"))
        old_quantity == item.quantity
        new_quantity == old_quantity + adjustment.n
        saved == [db EXCEPT !.inventory = [quantity |-> new_quantity],
                            !.saves = Append(db.saves, [op |-> "save",
                                                        table |-> "inventory",
                                                        quantity |-> new_quantity])]
        created == [saved EXCEPT !.movements =
                       Append(db.movements,
                              [movement_type |-> "adjustment",
                               quantity |-> adjustment.n,
                               reason |-> reason.s,
                               previous_quantity |-> old_quantity,
                               new_quantity |-> new_quantity])]
    IN  IF adjustment.t # "int"
        THEN [db |-> db, response |-> ServerError]
        ELSE IF outcome = "raise"
        THEN [db |-> atomic(db, saved, TRUE), response |-> ServerError]
        ELSE [db |-> atomic(db, created, FALSE),
              response |-> [status |-> 200,
                            data |-> [status |-> "stock adjusted",
                                      old_quantity |-> old_quantity,
                                      new_quantity |-> new_quantity,
                                      adjustment |-> adjustment.n]]]

InitStock ==
    /\ supabase = TRUE
    /\ OPENAI_API_KEY = FALSE
    /\ body = EMPTY
    /\ pc = "stock"
    /\ question = ""
    /\ filters = EMPTY
    /\ top_k = DEFAULT_TOP_K
    /\ intents = <<>>
    /\ evidences = <<>>
    /\ rendered = <<>>
    /\ answer = NoAnswer
    /\ now = 1
    /\ calls = <<>>
    /\ backend = <<>>
    /\ response = NoResponse
    /\ embeddings = <<>>
    /\ np_random = SEED
    /\ embedded = <<>>
    /\ orders = <<>>
    /\ requests = <<>>
    /\ inventory = InitialItem
    /\ movements = <<>>

\* inventory_item = self.get_object(), outside the transaction
LoadItem(data) ==
    /\ Len(requests) < MaxInflight
    /\ now + Len(requests) <= MaxCalls
    /\ requests' = Append(requests, [data |-> data, item |-> inventory])
    /\ UNCHANGED <<supabase, OPENAI_API_KEY, body, pc, question, filters, top_k, intents,
                   evidences, rendered, answer, now, calls, backend, response, embeddings,
                   np_random, embedded>>
    /\ UNCHANGED <<orders, inventory, movements>>

\* lines 98-122 for the request in flight at position i
AdjustStock(i, outcome) ==
    /\ i \in 1..Len(requests)
    /\ LET out == adjust_stock(requests[i].item, requests[i].data,
                               [inventory |-> inventory, movements |-> movements,
                                saves |-> calls], outcome)
       IN  /\ inventory' = out.db.inventory
           /\ movements' = out.db.movements
           /\ calls' = out.db.saves
           /\ response' = out.response
    /\ requests' = Without(requests, i)
    /\ now' = now + 1
    /\ UNCHANGED <<supabase, OPENAI_API_KEY, body, pc, question, filters, top_k, intents,
                   evidences, rendered, answer, backend, embeddings, np_random, embedded>>
    /\ UNCHANGED orders

NextStock ==
    \/ \E data \in StockBodies : LoadItem(data)
    \/ \E i \in 1..MaxInflight, outcome \in Outcomes : AdjustStock(i, outcome)

SpecStock == InitStock /\ [][NextStock]_vars

-----------------------------------------------------------------------------
(* The dedicated endpoints: InventoryView, OrdersView, RiskView, AnalyticsView *)

\* int(request.query_params.get("limit") or 100)
DEFAULT_LIMIT == 100

\* the endpoints and the statement each hands to run_sql
VIEWS == {"inventory", "orders", "risk", "analytics"}

ViewSql(view) ==
    CASE view = "inventory" -> SQL_INVENTORY
      [] view = "orders" -> SQL_ORDERS
      [] view = "risk" -> SQL_RISK_EVENTS
      [] view = "analytics" -> SQL_ANALYTICS_METRICS

\* the optional query parameters an endpoint reads besides limit
ViewFields(view) ==
    CASE view = "inventory" -> {"sku"}
      [] view = "orders" -> {"order_id", "status"}
      [] view = "risk" -> {"severity", "since"}
      [] view = "analytics" -> {"metric", "since"}

\* the value a caller sends for a query parameter; the text of a query string is
\* written as the value it denotes, I(n) for a numeral and S(..) for other text
QueryValue(k) ==
    CASE k = "sku" -> S("SKU-1001")
      [] k = "order_id" -> I(1)
      [] k = "status" -> S("shipped")
      [] k = "severity" -> I(7)
      [] k = "metric" -> S("otif")
      [] k = "since" -> I(14)

\* limit as sent: a numeral, text that is no numeral, the empty text
LimitValues == {I(2), S("abc"), S("")}

\* request.query_params of a GET: any subset of the optional parameters, with or
\* without limit
QueryParams(view) ==
    UNION {{[k \in ks |-> QueryValue(k)]} \cup {With([k \in ks |-> QueryValue(k)], "limit", l) : l \in LimitValues} :
              ks \in SUBSET ViewFields(view)}

\* request.query_params.get(k): None when the parameter was not sent
QueryGet(qp, k) == IF k \in DOMAIN qp THEN qp[k] ELSE None

\* request.query_params.get("limit") or 100, before int()
LimitText(qp) ==
    IF QueryGet(qp, "limit") \in {None, S("")} THEN I(DEFAULT_LIMIT) ELSE qp["limit"]

\* params as built by the get method: one key per optional parameter, sent or not,
\* and limit for the inventory and orders endpoints
ViewParams(view, qp) ==
    LET named == [k \in ViewFields(view) |-> QueryGet(qp, k)]
    IN  IF view \in {"inventory", "orders"} THEN With(named, "limit", LimitText(qp))
        ELSE named

\* int(...) of line 258 / 271 raises ValueError before run_sql is called
ViewRaises(view, qp) == view \in {"inventory", "orders"} /\ IntRaises(LimitText(qp))

InitViews ==
    /\ supabase \in BOOLEAN
    /\ OPENAI_API_KEY = FALSE
    /\ body = EMPTY
    /\ pc = "get"
    /\ question = ""
    /\ filters = EMPTY
    /\ top_k = DEFAULT_TOP_K
    /\ intents = <<>>
    /\ evidences = <<>>
    /\ rendered = <<>>
    /\ answer = NoAnswer
    /\ now = 0
    /\ calls = <<>>
    /\ backend = <<>>
    /\ response = NoResponse
    /\ embeddings = <<>>
    /\ np_random = SEED
    /\ embedded = <<>>
    /\ orders = <<>>
    /\ requests = <<>>
    /\ inventory = <<>>
    /\ movements = <<>>

\* InventoryView.get, OrdersView.get, RiskView.get, AnalyticsView.get: body keeps the
\* query parameters, intents the statement and params handed to run_sql
ViewGet(view, qp, outcome, elapsed) ==
    /\ pc = "get"
    /\ body' = qp
    /\ IF ViewRaises(view, qp)
       THEN /\ response' = ServerError
            /\ UNCHANGED <<intents, evidences, calls, backend, now>>
       ELSE LET sql == ViewSql(view)
                params == ViewParams(view, qp)
                ev == run_sql(sql, params, outcome, elapsed)
            IN  /\ intents' = <<[domain |-> view, sql |-> sql, params |-> params]>>
                /\ evidences' = <<ev>>
                /\ calls' = IF supabase THEN SqlCalls(sql, params) ELSE <<>>
                /\ backend' = <<SqlBackend(sql, params, outcome, elapsed)>>
                /\ now' = now + (IF supabase THEN elapsed ELSE 0)
                /\ response' = [status |-> 200,
                                data |-> [rows |-> ev.rows, query_ms |-> ev.query_ms]]
    /\ pc' = "returned"
    /\ UNCHANGED <<supabase, OPENAI_API_KEY, question, filters, top_k, rendered, answer,
                   embeddings, np_random, embedded>>
    /\ UNCHANGED <<orders, requests, inventory, movements>>

NextViews ==
    \E view \in VIEWS, outcome \in Outcomes, elapsed \in Delays :
        \E qp \in QueryParams(view) : ViewGet(view, qp, outcome, elapsed)

SpecViews == InitViews /\ [][NextViews]_vars

-----------------------------------------------------------------------------
(* Claims about snippets, limits and procedures *)

\* the allow-listed fields of a row, in allow-list order: all that are in the row
\* when nulls is TRUE, those with a value other than null when it is FALSE
FieldsIn(row, nulls) ==
    SelectSeq(KEY_FIELDS, LAMBDA k : k \in DOMAIN row /\ (nulls \/ row[k] # None))

\* one k=v fragment per field, joined with "; "
SnippetOver(row, fields) ==
    Join([i \in 1..Len(fields) |-> fields[i] \o "=" \o Str(row[fields[i]])], "; ")

\* the snippets of all rows in retrieval order, rows without such a field skipped
SnippetsOver(evs, nulls) ==
    Flatten([b \in 1..Len(evs) |->
        Flatten([r \in 1..Len(evs[b].rows) |->
            IF FieldsIn(evs[b].rows[r], nulls) = <<>> THEN <<>>
            ELSE <<SnippetOver(evs[b].rows[r], FieldsIn(evs[b].rows[r], nulls))>>])])

\* C21 as stated: the text is the prefix followed by the snippets of all rows, a
\* snippet holding one fragment per allow-listed field present in the row.
C21_FragmentPerPresentField ==
    (pc = "formatted" /\ ~NoRows(evidences)) =>
        answer.answer = PREFIX \o Join(SnippetsOver(evidences, TRUE), "; ")

\* C21 amended: a snippet holds one k=v fragment per allow-listed field that is in the
\* row with a value other than null, in allow-list order; a row without such a field
\* has no snippet; the text is the prefix followed by the first 10 snippets.
C21_FragmentPerNonNullField ==
    (pc = "formatted" /\ ~NoRows(evidences)) =>
        /\ rendered = Take(SnippetsOver(evidences, FALSE), SnippetCap)
        /\ answer.answer = PREFIX \o Join(rendered, "; ")

\* a row whose only allow-listed field is null, followed by an inventory row whose
\* fields come out in allow-list order and without its fields outside the list
C21_Witness ==
    /\ pc = "formatted"
    /\ Len(evidences) = 1
    /\ Len(evidences[1].rows) = 2
    /\ evidences[1].rows[1] = ROW_NULL
    /\ evidences[1].rows[2] = TABLE_INVENTORY[1]
    /\ rendered = <<"sku=SKU-1001; quantity=120; location=WH1">>
    /\ answer.answer = PREFIX \o "sku=SKU-1001; quantity=120; location=WH1"

\* the status changes the purchase order status actions may make
PurchaseStep(from, to) ==
    \/ from = "pending" /\ to = "approved"
    \/ from = "approved" /\ to = "delivered"
    \/ to = "cancelled" /\ from \notin {"delivered", "cancelled"}

\* C22: with approve, cancel and mark_delivered called one after another, the
\* purchase order's status changes only from pending to approved, from approved to
\* delivered, or to cancelled from a status other than delivered and cancelled (so
\* delivered and cancelled are never left), and a delivered order has been approved
C22_PurchaseLifecycle ==
    /\ [][orders'.purchase.status # orders.purchase.status
            => PurchaseStep(orders.purchase.status, orders'.purchase.status)]_vars
    /\ [](orders.purchase.status = "delivered" => orders.purchase.approved_at # None)

\* approve, mark_delivered, then a cancel that is refused on the delivered order
C22_Witness ==
    /\ orders.purchase.status = "delivered"
    /\ orders.purchase.approved_at = I(1)
    /\ orders.purchase.delivered_at = I(2)
    /\ orders.purchase.cancelled_at = None
    /\ orders.sales = NewSalesOrder
    /\ requests = <<>>
    /\ now = 4
    /\ response.status = 400

\* the status changes the sales order status actions may make
SalesStep(from, to) ==
    \/ from = "pending" /\ to = "confirmed"
    \/ from = "confirmed" /\ to = "shipped"
    \/ from = "shipped" /\ to = "delivered"
    \/ to = "cancelled" /\ from \notin {"delivered", "cancelled"}

\* the status a sales order had when the action that has just saved it succeeded
SucceededFrom(action, from) ==
    (/\ Len(calls') = Len(calls) + 1
     /\ calls'[Len(calls')].table = "sales"
     /\ calls'[Len(calls')].by = action) => orders.sales.status = from

\* C23: with confirm, ship, deliver and cancel called one after another, confirm
\* succeeds only from pending, ship only from confirmed and deliver only from shipped,
\* the status never skips a stage and never leaves delivered or cancelled, and a
\* delivered sales order was confirmed, then shipped, then delivered
C23_SalesLifecycle ==
    /\ [][/\ orders'.sales.status # orders.sales.status
                => SalesStep(orders.sales.status, orders'.sales.status)
          /\ SucceededFrom("confirm", "pending")
          /\ SucceededFrom("ship", "confirmed")
          /\ SucceededFrom("deliver", "shipped")]_vars
    /\ [](orders.sales.status = "delivered"
            => /\ orders.sales.confirmed_at # None
               /\ orders.sales.shipped_at # None
               /\ orders.sales.confirmed_at.n < orders.sales.shipped_at.n
               /\ orders.sales.shipped_at.n < orders.sales.delivered_at.n)

\* confirm, ship, deliver, then a cancel that is refused on the delivered order
C23_Witness ==
    /\ orders.sales.status = "delivered"
    /\ orders.sales.confirmed_at = I(1)
    /\ orders.sales.shipped_at = I(2)
    /\ orders.sales.delivered_at = I(3)
    /\ orders.sales.cancelled_at = None
    /\ requests = <<>>
    /\ now = 5
    /\ response.status = 400

\* the status an action requires of the order, read from the claim's side: approve
\* and confirm want pending, mark_delivered approved, ship confirmed, deliver
\* shipped, cancel anything but delivered and cancelled
WrongStatus(r) ==
    CASE r.action \in {"approve", "confirm"} -> r.order.status # "pending"
      [] r.action = "mark_delivered" -> r.order.status # "approved"
      [] r.action = "ship" -> r.order.status # "confirmed"
      [] r.action = "deliver" -> r.order.status # "shipped"
      [] OTHER -> r.order.status \in {"delivered", "cancelled"}

\* C24: a status action on an order in the wrong status answers 400 with an error
\* and changes no field of either order: status, approved_by / confirmed_by and
\* every *_at timestamp stay as they were, and nothing is saved
C24_RefusalChangesNothing ==
    [][(Len(requests) = 1 /\ requests' = <<>> /\ WrongStatus(requests[1]))
         => /\ response'.status = 400
            /\ DOMAIN response'.data = {"error"}
            /\ orders' = orders
            /\ calls' = calls]_vars

\* alice's approval, then a second approve that was refused: the row is as alice left it
C24_Witness ==
    /\ response.status = 400
    /\ response.data = [error |-> "Only pending orders can be approved"]
    /\ orders.purchase = [status |-> "approved", approved_by |-> "alice",
                          approved_at |-> I(1), cancelled_at |-> None,
                          delivered_at |-> None]
    /\ requests = <<>>
    /\ now = 3

\* TRUE when a cancel of the view's order has saved and answered 200
CancelSucceeded(view) ==
    \E k \in 1..Len(calls) : calls[k].table = view /\ calls[k].by = "cancel"

\* C25: once a cancel has reported success the order is cancelled and stays so,
\* whatever other status actions on the same order overlap with it
C25_CancelIsFinal ==
    \A view \in {"purchase", "sales"} :
        CancelSucceeded(view) => /\ orders[view].status = "cancelled"
                                 /\ orders[view].cancelled_at # None

\* C26: when every adjust_stock request has been answered, the item's quantity is
\* its initial quantity plus the sum of the adjustments that were applied
C26_NoLostAdjustment ==
    requests = <<>>
        => inventory.quantity = InitialItem.quantity + SumOf(movements, "quantity")

\* C27: every StockMovement has new_quantity = previous_quantity + quantity, there
\* is exactly one movement per committed save of the item, the k-th movement carrying
\* the quantity the k-th save wrote, and a step changes the item's quantity only
\* together with appending the movement that records the new quantity
C27_MovementPerChange ==
    /\ [](/\ \A k \in 1..Len(movements) :
                /\ movements[k].new_quantity
                     = movements[k].previous_quantity + movements[k].quantity
                /\ k <= Len(calls)
                /\ calls[k].quantity = movements[k].new_quantity
          /\ Len(movements) = Len(calls))
    /\ [][(inventory' # inventory \/ movements' # movements \/ calls' # calls)
            => /\ Len(movements') = Len(movements) + 1
               /\ Len(calls') = Len(calls) + 1
               /\ movements'[Len(movements')].new_quantity = inventory'.quantity
               /\ response'.status = 200]_vars

\* a write-off committed with its movement, then a request whose insert failed and
\* one whose adjustment was text: neither left a trace
C27_Witness ==
    /\ movements = <<[movement_type |-> "adjustment", quantity |-> 0 - 2,
                      reason |-> "damaged", previous_quantity |-> 10,
                      new_quantity |-> 8]>>
    /\ inventory.quantity = 8
    /\ Len(calls) = 1
    /\ response = ServerError
    /\ requests = <<>>
    /\ now = 4

\* the optional parameters of the endpoint that answered, from the params it built
OptionalFields == DOMAIN intents[1].params \ {"limit"}

\* the store column a parameter restricts
ColumnOf(k) ==
    CASE k = "order_id" -> "id"
      [] k = "since" -> IF intents[1].domain = "risk" THEN "event_time" ELSE "ts"
      [] OTHER -> k

\* C28: the select a dedicated endpoint sends carries a restriction only on the
\* columns of the optional parameters the caller supplied
C28_FiltersOnlyForSupplied ==
    (pc = "returned" /\ calls # <<>>)
        => \A k \in OptionalFields :
              k \notin DOMAIN body
                  => \A c \in 1..Len(calls[1].conds) : calls[1].conds[c].col # ColumnOf(k)

\* top_k as the request gives it: the number sent, 8 when none was sent
RequestTopK == IF "top_k" \in DOMAIN body THEN body["top_k"].n ELSE DEFAULT_TOP_K

\* C29: in a chat request every match RPC asks for min(top_k, 10) matches, every
\* select on inventory or orders is limited to top_k rows whatever limit filters
\* carries, and every select on risk_events or analytics_metrics has no limit
C29_LimitsFromTopKAlone ==
    \A c \in 1..Len(calls) :
        /\ calls[c].op = "rpc" => calls[c].args.match_count = Min(RequestTopK, 10)
        /\ (calls[c].op = "select" /\ calls[c].table \in {"inventory", "orders"})
              => calls[c].limit = <<RequestTopK>>
        /\ (calls[c].op = "select"
              /\ calls[c].table \in {"risk_events", "analytics_metrics"})
              => calls[c].limit = <<>>

\* "sku eta alert" with top_k 12 and filters {"limit": 1}: 10 matches asked of the
\* vector source, 12 rows of inventory and of orders, risk_events unlimited
C29_Witness ==
    /\ pc = "responded"
    /\ body = [question |-> Q_THREE, filters |-> [limit |-> I(1)], top_k |-> I(12)]
    /\ \E c \in 1..Len(calls) : calls[c].op = "rpc" /\ calls[c].args.match_count = 10
    /\ \E c \in 1..Len(calls) :
          calls[c].op = "select" /\ calls[c].table = "inventory" /\ calls[c].limit = <<12>>
    /\ \E c \in 1..Len(calls) :
          calls[c].op = "select" /\ calls[c].table = "orders" /\ calls[c].limit = <<12>>
    /\ \E c \in 1..Len(calls) :
          calls[c].op = "select" /\ calls[c].table = "risk_events" /\ calls[c].limit = <<>>

\* C30: whatever the question and the filters of a chat request, the only remote
\* procedure invoked is match_embeddings, and every statement the request hands to
\* run_sql is routed to one of the four tables, never to the procedure branch
C30_OnlyVectorMatchInvoked ==
    /\ \A c \in 1..Len(calls) : calls[c].op = "rpc" => calls[c].fn = S("match_embeddings")
    /\ \A i \in 1..Len(intents) : Route(intents[i].sql) # "rpc"

\* "risk kpi" with filters naming the procedure truncate_table: both lookups went
\* out as selects, carrying the filters as params, and the answer was returned
C30_Witness ==
    /\ pc = "responded"
    /\ body = [question |-> Q_RISK_KPI,
               filters |-> [rpc |-> S("truncate_table"), args |-> [t |-> S("orders")]]]
    /\ supabase
    /\ Len(intents) = 2
    /\ RpcNamed(intents[1].params)
    /\ \E c \in 1..Len(calls) : calls[c].op = "select" /\ calls[c].table = "risk_events"
    /\ \E c \in 1..Len(calls) :
          calls[c].op = "select" /\ calls[c].table = "analytics_metrics"

====
